---- MODULE Spec2Model ----
(***************************************************************************)
(* Model of the issue-driven git / pull-request automation scripts:        *)
(*   scripts/git-automation.ts   (the monolithic workflow, "automation")   *)
(*   scripts/git-ops/*.ts        (retry engine, git helpers, prompts)      *)
(*   scripts/git-workflow.ts and scripts/git/*.ts (the modular workflow,   *)
(*                                "workflow")                              *)
(*                                                                         *)
(* Text is modelled structurally.  A text is a sequence of lines, a line   *)
(* is a sequence of word tokens; the empty string is <<>> and a            *)
(* whitespace-only string is a text made of blank lines only.  Names       *)
(* (branches, issue lines) are sequences of one-character strings.  An     *)
(* optional value is a sequence of length 0 (undefined) or 1.              *)
(***************************************************************************)
EXTENDS Integers, Sequences, FiniteSets, TLC

VARIABLES
    \* ---- retry engine (git-ops/retry-helpers.ts), one polling loop ----
    rpc,                \* position in retry_with_status
    attempt,            \* loop counter `attempt`
    max_attempts,       \* config.max_attempts ?? DEFAULT_MAX_ATTEMPTS
    label,              \* config.label
    last_retry_details, \* `last_retry_details` (optional text)
    calls,              \* history: one record per invocation of config.execute
    delays,             \* history: number of wait_for(retry_delay) calls started
    outcome,            \* what retry_with_status returned or threw
    script              \* the config.execute under test: its result per attempt

retry_vars ==
    <<rpc, attempt, max_attempts, label, last_retry_details, calls, delays, outcome, script>>

VARIABLES
    \* ---- one run of a workflow script ----
    program,            \* which script runs: "automation", "workflow" or "none"
    tty,                \* process.stdin.isTTY
    pc,                 \* the call main() is about to make
    error,              \* tag of the error that ended the run, "" when none
    exit_code,          \* process exit code, -1 while running
    head,               \* the repository's checked-out branch
    config,             \* AutomationConfig / IssueInfo: title, number, target branch
    operations,         \* config.operations (OperationSelection)
    current_branch,     \* the branch name main() hands to the later steps
    pr_info,            \* parsed `gh pr view` record
    log,                \* history: external commands in invocation order
    done,               \* history: validations completed successfully
    printed,            \* history: tags of the messages printed
    running             \* external step processes started and not yet exited

wf_vars ==
    <<program, tty, pc, error, exit_code, head, config, operations, current_branch,
      pr_info, log, done, printed, running>>

vars == <<retry_vars, wf_vars>>

-----------------------------------------------------------------------------
(* Optional values and text helpers                                        *)

None == <<>>
Some(x) == <<x>>

RECURSIVE DropLeadingBlank(_)
DropLeadingBlank(t) ==
    IF t # <<>> /\ Head(t) = <<>> THEN DropLeadingBlank(Tail(t)) ELSE t

RECURSIVE DropTrailingBlank(_)
DropTrailingBlank(t) ==
    IF t # <<>> /\ t[Len(t)] = <<>>
    THEN DropTrailingBlank(SubSeq(t, 1, Len(t) - 1))
    ELSE t

\* String.prototype.trim on a text: leading and trailing whitespace goes.
Trim(t) == DropTrailingBlank(DropLeadingBlank(t))

\* s occurs in t as a run of consecutive elements
IsInfix(s, t) ==
    \E i \in 0..(Len(t) - Len(s)) : SubSeq(t, i + 1, i + Len(s)) = s

-----------------------------------------------------------------------------
(* Characters and names (sequences of one-character strings).  "E'" and    *)
(* "e'" stand for the precomposed letters E-acute and e-acute, "'" for the *)
(* combining acute accent.                                                 *)

Digits == {"0", "1", "2", "3", "4", "5", "6", "7", "8", "9"}

UpperCaseLetters ==
    <<"A", "B", "C", "D", "E", "F", "G", "H", "I", "J", "K", "L", "M",
      "N", "O", "P", "Q", "R", "S", "T", "U", "V", "W", "X", "Y", "Z", "E'">>

LowerCaseLetters ==
    <<"a", "b", "c", "d", "e", "f", "g", "h", "i", "j", "k", "l", "m",
      "n", "o", "p", "q", "r", "s", "t", "u", "v", "w", "x", "y", "z", "e'">>

AsciiLowerCase == {LowerCaseLetters[i] : i \in 1..26}

\* String.prototype.toLowerCase, one character
LowerChar(c) ==
    IF \E i \in DOMAIN UpperCaseLetters : UpperCaseLetters[i] = c
    THEN LowerCaseLetters[CHOOSE i \in DOMAIN UpperCaseLetters : UpperCaseLetters[i] = c]
    ELSE c

ToLowerCase(s) == [i \in DOMAIN s |-> LowerChar(s[i])]

IsWhitespace(c) == c \in {" ", "\n", "\t"}

RECURSIVE TrimStartChars(_)
TrimStartChars(s) ==
    IF s # <<>> /\ IsWhitespace(Head(s)) THEN TrimStartChars(Tail(s)) ELSE s

RECURSIVE TrimEndChars(_)
TrimEndChars(s) ==
    IF s # <<>> /\ IsWhitespace(s[Len(s)])
    THEN TrimEndChars(SubSeq(s, 1, Len(s) - 1))
    ELSE s

TrimChars(s) == TrimEndChars(TrimStartChars(s))

\* String.prototype.slice(from) and slice(0, to), 0-based as in the source
SliceFrom(s, from) == SubSeq(s, from + 1, Len(s))
SliceTo(s, to) == SubSeq(s, 1, to)

\* String.prototype.indexOf, 0-based, -1 when absent
IndexOf(s, c) ==
    IF \E i \in DOMAIN s : s[i] = c
    THEN (CHOOSE i \in DOMAIN s : s[i] = c /\ \A j \in DOMAIN s : s[j] = c => i <= j) - 1
    ELSE -1

\* String.prototype.lastIndexOf, 0-based, -1 when absent
LastIndexOf(s, c) ==
    IF \E i \in DOMAIN s : s[i] = c
    THEN (CHOOSE i \in DOMAIN s : s[i] = c /\ \A j \in DOMAIN s : s[j] = c => j <= i) - 1
    ELSE -1

StartsWith(s, prefix) ==
    Len(s) >= Len(prefix) /\ SubSeq(s, 1, Len(prefix)) = prefix

\* String.prototype.split(/\r?\n/u)
RECURSIVE SplitLines(_)
SplitLines(s) ==
    IF \E i \in DOMAIN s : s[i] = "\n"
    THEN LET i == CHOOSE i \in DOMAIN s : s[i] = "\n" /\ \A j \in 1..(i - 1) : s[j] # "\n"
         IN  <<SubSeq(s, 1, i - 1)>> \o SplitLines(SubSeq(s, i + 1, Len(s)))
    ELSE <<s>>

NonEmptyLine(line) == line # <<>>

\* the first maximal run of digits of s (the match of /\d+/), <<>> when none
RECURSIVE LeadingDigits(_)
LeadingDigits(s) ==
    IF s # <<>> /\ Head(s) \in Digits
    THEN <<Head(s)>> \o LeadingDigits(Tail(s))
    ELSE <<>>

\* a match that is never empty
ZeroWhenNoDigit(s) == <<"0">>

RECURSIVE FirstDigitRun(_)
FirstDigitRun(s) ==
    IF s = <<>> THEN <<>>
    ELSE IF Head(s) \in Digits THEN LeadingDigits(s)
    ELSE FirstDigitRun(Tail(s))

-----------------------------------------------------------------------------
(* Bounds                                                                  *)

\* config.max_attempts is drawn from 0..MaxConfiguredAttempts or left undefined
MaxConfiguredAttempts == 3

-----------------------------------------------------------------------------
(* git-ops/error-utilities.ts                                              *)

format_failure_message(summary, details) ==
    IF details = None
    THEN summary
    ELSE LET trimmed_details == Trim(details[1])
         IN  IF trimmed_details = <<>> THEN summary ELSE summary \o trimmed_details

build_retry_failure_error(failure_label, details) ==
    format_failure_message(failure_label, details)

-----------------------------------------------------------------------------
(* git-ops/retry-helpers.ts                                                *)

DEFAULT_MAX_ATTEMPTS == 5

\* RetryStepResult<T>; a throwing execute is the third outcome
\* `probe` is history only: the exit status and output the execute of a PR
\* poll classified, None for any other execute
StepSuccess(value, details) ==
    [status |-> "success", value |-> value, details |-> details, probe |-> None]
StepRetry(details) ==
    [status |-> "retry", value |-> <<>>, details |-> details, probe |-> None]
StepThrow(thrown) ==
    [status |-> "throw", value |-> thrown, details |-> None, probe |-> None]
Probed(res, status, output) ==
    [res EXCEPT !.probe = Some([status |-> status, output |-> output])]

RetryDetails(message, raw_output) == [message |-> message, raw_output |-> raw_output]

extract_retry_message(details) ==
    IF details = None
    THEN None
    ELSE IF Trim(details[1].message) = <<>>
         THEN details[1].raw_output
         ELSE Some(details[1].message)

should_attempt_retry_off_by_one(an_attempt, a_max) == an_attempt + 1 < a_max

should_attempt_retry(an_attempt, a_max) == an_attempt < a_max

next_attempt_skipping(an_attempt) == an_attempt + 2

\* the loop's `attempt += 1`
next_attempt(an_attempt) == an_attempt + 1

\* `${config.label} failed.`
FailedLabel(a_label) == << <<a_label, "failed.">> >>

\* retry_with_status up to the first evaluation of the loop condition
retry_with_status_begin(config_label, config_max_attempts) ==
    /\ rpc' = "loop"
    /\ attempt' = 1
    /\ max_attempts' =
         IF config_max_attempts = None THEN DEFAULT_MAX_ATTEMPTS ELSE config_max_attempts[1]
    /\ label' = config_label
    /\ last_retry_details' = None
    /\ calls' = <<>>
    /\ delays' = 0
    /\ outcome' = [type |-> "none", text |-> <<>>]
    /\ UNCHANGED script

\* One pass through the loop body: execute_retry_step, then what
\* process_retry_attempt does with its result `res`.
process_retry_attempt(res) ==
    LET message == extract_retry_message(res.details)
        next_retry_details == IF message = None THEN last_retry_details ELSE message
        call == [attempt |-> attempt, max_attempts |-> max_attempts,
                 status |-> res.status, message |-> message, probe |-> res.probe]
    IN  /\ rpc = "loop"
        /\ attempt <= max_attempts
        /\ calls' = Append(calls, call)
        /\ UNCHANGED <<max_attempts, label, script>>
        /\ CASE res.status = "throw" ->
                  /\ rpc' = "threw"
                  /\ outcome' = [type |-> "error", text |-> res.value]
                  /\ UNCHANGED <<attempt, last_retry_details, delays>>
             [] res.status = "success" ->
                  /\ rpc' = "returned"
                  /\ outcome' = [type |-> "value", text |-> res.value]
                  /\ UNCHANGED <<attempt, last_retry_details, delays>>
             [] res.status = "retry" /\ ~should_attempt_retry(attempt, max_attempts) ->
                  /\ rpc' = "threw"
                  /\ outcome' = [type |-> "error",
                                 text |-> build_retry_failure_error(FailedLabel(label),
                                                                    next_retry_details)]
                  /\ last_retry_details' = next_retry_details
                  /\ UNCHANGED <<attempt, delays>>
             [] res.status = "retry" /\ should_attempt_retry(attempt, max_attempts) ->
                  /\ rpc' = "waiting"
                  /\ delays' = delays + 1
                  /\ last_retry_details' = next_retry_details
                  /\ UNCHANGED <<attempt, outcome>>

\* wait_for(retry_delay_ms) resolves; the loop goes round
RetryDelayElapsed ==
    /\ rpc = "waiting"
    /\ rpc' = "loop"
    /\ attempt' = next_attempt(attempt)
    /\ UNCHANGED <<max_attempts, label, last_retry_details, calls, delays, outcome, script>>
    /\ UNCHANGED wf_vars

\* the loop condition fails: the throw after the loop
RetryLoopExit ==
    /\ rpc = "loop"
    /\ ~(attempt <= max_attempts)
    /\ rpc' = "threw"
    /\ outcome' = [type |-> "error",
                   text |-> build_retry_failure_error(FailedLabel(label), last_retry_details)]
    /\ UNCHANGED <<attempt, max_attempts, label, last_retry_details, calls, delays, script>>
    /\ UNCHANGED wf_vars

-----------------------------------------------------------------------------
(* git-automation.ts: issue parser and canonical branch                    *)

IssuePrefix == <<"i", "s", "s", "u", "e", ":">>

\* line.replace(/^issue:\s*/iu, '')
StripIssuePrefix(line) ==
    IF StartsWith(ToLowerCase(line), IssuePrefix)
    THEN TrimStartChars(SliceFrom(line, Len(IssuePrefix)))
    ELSE line

Malformed == [ok |-> FALSE, issue_title |-> <<>>, issue_number |-> <<>>]

parse_issue_line(line) ==
    LET normalized == TrimChars(StripIssuePrefix(line))
        hash_index == LastIndexOf(normalized, "#")
        raw_title == TrimChars(SliceTo(normalized, hash_index))
        raw_number == TrimChars(SliceFrom(normalized, hash_index + 1))
        number_match == FirstDigitRun(raw_number)
    IN  IF hash_index <= 0
        THEN Malformed
        ELSE IF raw_title = <<>> \/ number_match = <<>>
             THEN Malformed
             ELSE [ok |-> TRUE, issue_title |-> raw_title, issue_number |-> number_match]

\* String.prototype.normalize('NFKD'), one character
NFKD(c) == IF c = "e'" THEN <<"e", "'">> ELSE <<c>>

RECURSIVE NormalizeNFKD(_)
NormalizeNFKD(s) ==
    IF s = <<>> THEN <<>> ELSE NFKD(Head(s)) \o NormalizeNFKD(Tail(s))

IsSlugChar(c) == c \in (AsciiLowerCase \cup Digits)

RECURSIVE DropNonSlugChars(_)
DropNonSlugChars(s) ==
    IF s # <<>> /\ ~IsSlugChar(Head(s)) THEN DropNonSlugChars(Tail(s)) ELSE s

\* replaceAll(/[^a-z0-9]+/gu, '-')
RECURSIVE ReplaceNonAlnumRuns(_)
ReplaceNonAlnumRuns(s) ==
    IF s = <<>> THEN <<>>
    ELSE IF IsSlugChar(Head(s))
         THEN <<Head(s)>> \o ReplaceNonAlnumRuns(Tail(s))
         ELSE <<"-">> \o ReplaceNonAlnumRuns(DropNonSlugChars(s))

RECURSIVE DropHyphens(_)
DropHyphens(s) == IF s # <<>> /\ Head(s) = "-" THEN DropHyphens(Tail(s)) ELSE s

\* replaceAll(/-+/gu, '-')
RECURSIVE CollapseHyphens(_)
CollapseHyphens(s) ==
    IF s = <<>> THEN <<>>
    ELSE IF Head(s) = "-"
         THEN <<"-">> \o CollapseHyphens(DropHyphens(s))
         ELSE <<Head(s)>> \o CollapseHyphens(Tail(s))

\* replaceAll(/(^-)|(-$)/gu, '')
StripEdgeHyphens(s) ==
    LET without_first == IF s # <<>> /\ Head(s) = "-" THEN Tail(s) ELSE s
    IN  IF without_first # <<>> /\ without_first[Len(without_first)] = "-"
        THEN SubSeq(without_first, 1, Len(without_first) - 1)
        ELSE without_first

\* no fallback slug
EmptySlug == <<>>

\* a fallback that is not a slug itself
CapitalisedSlug == <<"U", "p", "d", "a", "t", "e">>

UpdateSlug == <<"u", "p", "d", "a", "t", "e">>

sanitize_branch_slug(title) ==
    LET replaced ==
            StripEdgeHyphens(CollapseHyphens(ReplaceNonAlnumRuns(
                NormalizeNFKD(ToLowerCase(title)))))
    IN  IF replaced = <<>> THEN UpdateSlug ELSE replaced

generate_target_branch(issue_title, issue_number) ==
    issue_number \o <<"-">> \o sanitize_branch_slug(issue_title)

\* AutomationConfig without its operations
parse_automation_config(issue_line) ==
    LET parsed == parse_issue_line(issue_line)
    IN  [ok |-> parsed.ok,
         issue_title |-> parsed.issue_title,
         issue_number |-> parsed.issue_number,
         target_branch |-> IF parsed.ok
                           THEN generate_target_branch(parsed.issue_title, parsed.issue_number)
                           ELSE <<>>]

-----------------------------------------------------------------------------
(* git-automation.ts: branch alignment                                     *)

MainBranch == <<"m", "a", "i", "n">>
MasterBranch == <<"m", "a", "s", "t", "e", "r">>

\* /^(\d+)-/u
extract_branch_issue_number(branch) ==
    LET digits == LeadingDigits(branch)
    IN  IF digits # <<>> /\ Len(branch) > Len(digits) /\ branch[Len(digits) + 1] = "-"
        THEN Some(digits)
        ELSE None

\* TRUE when ensure_branch_matches_issue throws
ensure_branch_matches_issue_never_throws(branch, issue_number) == FALSE

ensure_branch_matches_issue_throws(branch, issue_number) ==
    IF branch = MainBranch \/ branch = MasterBranch
    THEN FALSE
    ELSE LET branch_issue == extract_branch_issue_number(branch)
         IN  branch_issue # None /\ branch_issue[1] # issue_number

\* a decision that creates the canonical branch from any other branch
resolve_branch_alignment_creating_anywhere(target_branch, on_branch) ==
    [target_branch_name |-> target_branch,
     should_pull_main |-> TRUE,
     should_create_branch |-> on_branch # target_branch,
     should_warn_about_name |-> FALSE]

resolve_branch_alignment(target_branch, on_branch) ==
    LET is_on_main == on_branch = MainBranch \/ on_branch = MasterBranch
        should_create_branch == on_branch # target_branch
    IN  IF is_on_main
        THEN [target_branch_name |-> IF should_create_branch THEN target_branch
                                     ELSE on_branch,
              should_pull_main |-> TRUE,
              should_create_branch |-> should_create_branch,
              should_warn_about_name |-> FALSE]
        ELSE [target_branch_name |-> on_branch,
              should_pull_main |-> FALSE,
              should_create_branch |-> FALSE,
              should_warn_about_name |-> on_branch # target_branch]

-----------------------------------------------------------------------------
(* git-automation.ts: running a command                                    *)

\* what spawnSync hands back: `error` set when the process could not be
\* spawned, `status` None when it was killed by a signal
SpawnResult(spawn_error, status, stdout, stderr) ==
    [error |-> spawn_error, status |-> status, stdout |-> stdout, stderr |-> stderr]
SpawnError == SpawnResult(TRUE, None, <<>>, <<>>)
Exited(code, stdout, stderr) == SpawnResult(FALSE, Some(code), stdout, stderr)
KilledBySignal == SpawnResult(FALSE, None, <<>>, <<>>)

\* status: result.status ?? 0
build_command_result(raw) ==
    [status |-> IF raw.status = None THEN 0 ELSE raw.status[1],
     stdout |-> raw.stdout,
     stderr |-> raw.stderr]

\* TRUE when run_command throws: throw_on_spawn_error, ensure_success_status
run_command_throws(raw, should_allow_non_zero_exit) ==
    \/ raw.error
    \/ ~should_allow_non_zero_exit /\ build_command_result(raw).status # 0

\* how the command ended, for the history
ExitOf(raw) ==
    IF raw.error THEN "spawn_error"
    ELSE IF raw.status = None THEN "signal"
    ELSE IF raw.status[1] = 0 THEN "zero" ELSE "non_zero"

\* one external command in the history; `output` is kept for `gh pr create`
Invocation(cmd, arg, raw) == [cmd |-> cmd, arg |-> arg, exit |-> ExitOf(raw), output |-> <<>>]
InvocationPrinting(cmd, arg, raw, output) ==
    [cmd |-> cmd, arg |-> arg, exit |-> ExitOf(raw), output |-> output]

\* [stdout, stderr].filter(value => value.trim().length > 0).join('\n').trim()
collect_command_output(result) ==
    Trim((IF Trim(result.stdout) # <<>> THEN result.stdout ELSE <<>>)
         \o (IF Trim(result.stderr) # <<>> THEN result.stderr ELSE <<>>))

\* toLowerCase on the words the command outputs are made of
LowerWord(w) ==
    CASE w = "Pull" -> "pull"
      [] w = "Request" -> "request"
      [] w = "ALREADY" -> "already"
      [] w = "Exists" -> "exists"
      [] w = "No" -> "no"
      [] w = "Pending" -> "pending"
      [] w = "In" -> "in"
      [] w = "Progress" -> "progress"
      [] w = "QUEUED" -> "queued"
      [] w = "SonarCloud" -> "sonarcloud"
      [] w = "Pass" -> "pass"
      [] OTHER -> w

LowerLine(line) == [i \in DOMAIN line |-> LowerWord(line[i])]
LowerText(text) == [i \in DOMAIN text |-> LowerLine(text[i])]

\* text.includes(phrase) for a phrase of words on one line
IncludesPhrase(text, phrase) == \E i \in DOMAIN text : IsInfix(phrase, text[i])

is_existing_pr_message(command_output) ==
    LET normalized == LowerText(command_output)
    IN  /\ IncludesPhrase(normalized, <<"pull", "request">>)
        /\ IncludesPhrase(normalized, <<"already", "exists">>)

is_no_checks_reported_message(command_output) ==
    IncludesPhrase(LowerText(command_output), <<"no", "checks", "reported">>)

\* /\b(pending|in progress|queued)\b/u.test(normalized)
has_pending_checks_message(command_output) ==
    LET normalized == LowerText(command_output)
    IN  \/ IncludesPhrase(normalized, <<"pending">>)
        \/ IncludesPhrase(normalized, <<"in", "progress">>)
        \/ IncludesPhrase(normalized, <<"queued">>)

evaluate_check_phase_retrying_unhandled(command_output, an_attempt, a_max) ==
    IF an_attempt < a_max THEN "retry" ELSE "complete"

\* PendingCheckOutcome of evaluate_pending_checks and evaluate_report_status
evaluate_check_phase(command_output, an_attempt, a_max) ==
    LET is_pending == \/ is_no_checks_reported_message(command_output)
                      \/ has_pending_checks_message(command_output)
    IN  IF ~is_pending THEN "unhandled"
        ELSE IF an_attempt < a_max THEN "retry" ELSE "complete"

\* what evaluate_check_phase prints with the CheckPhaseMessages of
\* evaluate_pending_checks (key 'checks') and evaluate_report_status ('report')
check_phase_messages(key, command_output, an_attempt, a_max) ==
    LET is_no_checks == is_no_checks_reported_message(command_output)
        outcome_of_phase == evaluate_check_phase(command_output, an_attempt, a_max)
    IN  IF outcome_of_phase = "retry"
        THEN IF key = "checks"
             THEN {IF is_no_checks THEN "CI not registered yet. Retry soon."
                                   ELSE "CI still pending. Retry soon."}
             ELSE {IF is_no_checks THEN "CI report not ready. Retry soon."
                                   ELSE "CI report pending. Retry soon."}
        ELSE IF outcome_of_phase = "complete"
        THEN IF key = "checks"
             THEN {IF is_no_checks THEN "CI never registered. Continuing."
                                   ELSE "CI still pending. Continuing."}
             ELSE {IF is_no_checks THEN "CI report never arrived. Continuing."
                                   ELSE "CI report still pending. Continuing."}
        ELSE {}

CHECK_LABEL == "Checks"
REPORT_LABEL == "Report"

\* build_retry_error_by_key: 'CI watch failed.' / 'CI report failed.' and the output
build_retry_error_by_key(key, details) ==
    build_retry_failure_error(
        IF key = "checks" THEN << <<"CI", "watch", "failed.">> >>
                          ELSE << <<"CI", "report", "failed.">> >>,
        Some(details))

\* evaluate_watch_retry and evaluate_report_retry on the fetched output
evaluate_poll_retry(key, command_output, an_attempt, a_max) ==
    LET pending_outcome == evaluate_check_phase(command_output, an_attempt, a_max)
        details == Some(RetryDetails(command_output, Some(command_output)))
    IN  IF pending_outcome = "retry" THEN StepRetry(details)
        ELSE IF pending_outcome = "complete"
             THEN StepSuccess(IF key = "checks" THEN <<>> ELSE command_output, details)
             ELSE StepThrow(build_retry_error_by_key(key, command_output))

mark_existing_pr_as_failure(result, command_output) == result.status # 0

\* TRUE when handle_pr_creation_result throws 'Failed to create PR.'
handle_pr_creation_result_throws(result, command_output) ==
    result.status # 0 /\ ~is_existing_pr_message(command_output)

-----------------------------------------------------------------------------
(* Workflow state shared by both scripts                                   *)

NoConfig == [issue_title |-> <<>>, issue_number |-> <<>>, target_branch |-> <<>>]
NoOperations == [commit |-> FALSE, push |-> FALSE, pr |-> FALSE]
NoPrInfo == [url |-> None, title |-> None]

\* no workflow script is running (the retry engine is exercised alone)
WorkflowIdle ==
    /\ program = "none"
    /\ tty = FALSE
    /\ pc = "none"
    /\ error = ""
    /\ exit_code = -1
    /\ head = <<>>
    /\ config = NoConfig
    /\ operations = NoOperations
    /\ current_branch = <<>>
    /\ pr_info = NoPrInfo
    /\ log = <<>>
    /\ done = {}
    /\ printed = {}
    /\ running = {}

-----------------------------------------------------------------------------
(* The environment of one run: what the commands and the user can answer   *)

\* a command that prints nothing of interest: spawn failure, exit 1, exit 0,
\* death by signal
PlainResults ==
    {SpawnError, Exited(1, <<>>, <<>>), Exited(0, <<>>, <<>>), KilledBySignal}

PACKAGE_JSON_FILE == "package.json"

\* `git status --porcelain`
StatusOutputs ==
    { <<>>,
      <<"M", " ", " ", "a", "\n">>,
      <<"M", " ", " ", "a", " ", "\n", "A", " ", " ", "b", "\n">>,
      <<"M", " ", " ", "a", "\n", " ", "M", " ", "b", "\n">>,
      <<"M", "M", " ", "a", "\n">>,
      <<"M", " ", " ", PACKAGE_JSON_FILE, "\n">>,
      <<"?", "?", " ", "c", "\n">> }
StatusResults ==
    {SpawnError, Exited(128, <<>>, <<>>)} \cup {Exited(0, o, <<>>) : o \in StatusOutputs}

VersionKey == "\"version\""

\* `git diff --cached --name-only`
StagedFilesResults ==
    {SpawnError,
     Exited(0, <<"a", "\n">>, <<>>),
     Exited(0, <<"a", "\n", " ", PACKAGE_JSON_FILE, "\n">>, <<>>)}

\* `git diff --cached package.json`
PackageDiffResults ==
    {Exited(1, <<>>, <<>>),
     Exited(0, <<" ", "x", "\n", "+", " ", " ", VersionKey, ":", "1", "\n">>, <<>>),
     Exited(0, <<"+", " ", "x", VersionKey, ":", "\n">>, <<>>),
     Exited(0, <<"+", "\n", " ", VersionKey, ":", "1", "\n">>, <<>>)}

\* what the user types at a y/n question, in order, until an answer is accepted
AnswerScripts ==
    { << <<"y">> >>, << <<"n">> >>, << <<" ", "Y", " ">> >>,
      << <<"y", "e", "s">>, <<"N">> >>, << <<>>, <<"y">> >> }

Br42Fix == <<"4", "2", "-", "f", "i", "x">>
Br7Old == <<"7", "-", "o", "l", "d">>
BrFeature == <<"f", "e", "a", "t">>
Branches == {MainBranch, MasterBranch, Br42Fix, Br7Old, BrFeature}

\* what the user types (or pipes) as the issue line
LineFix42 == <<" ", "F", "i", "x", " ", "#", "4", "2">>
LineMalformed == <<"F", "i", "x", " ", "4", "2">>
LineLoginBug ==
    <<"F", "i", "x", " ", "l", "o", "g", "i", "n", " ", "b", "u", "g", " ", "#", "1", "0", "1">>
\* the longer line is typed in git-automation runs that start on main only
IssueLines ==
    {LineFix42, LineMalformed} \cup
        (IF program = "automation" /\ head = MainBranch THEN {LineLoginBug} ELSE {})

MaxMistypedLen == 3

\* short lines without '#', without a title before the last '#', or without
\* a digit after it
MistypedLines ==
    {typed \in UNION {[1..n -> {"a", "7", " ", "#"}] : n \in 0..MaxMistypedLen} :
        LET hashes == {k \in DOMAIN typed : typed[k] = "#"}
        IN  \/ hashes = {}
            \/ \E h \in hashes :
                   /\ \A k \in hashes : k <= h
                   /\ \/ \A k \in 1..(h - 1) : typed[k] = " "
                      \/ \A k \in (h + 1)..Len(typed) : typed[k] \notin Digits}

SENTINEL == <<"@git-automation.md">>
PipedInputs ==
    { <<>>, <<"\n">>, LineFix42 \o <<"\n">>, SENTINEL \o <<"\n">> \o LineFix42,
      SENTINEL \o <<"\n">> }

TitleFix == <<"F", "i", "x">>
TitleOther == <<"F", "i", "x", "e", "d">>
TitleLoginBug == <<"F", "i", "x", " ", "l", "o", "g", "i", "n", " ", "b", "u", "g">>
\* `gh issue view <n> --json title --jq .title`
IssueViewResults ==
    {SpawnError, Exited(1, <<>>, <<>>), Exited(0, <<"\n">>, <<>>),
     Exited(0, TitleFix \o <<"\n">>, <<>>), Exited(0, TitleOther \o <<"\n">>, <<>>),
     Exited(0, TitleLoginBug \o <<"\n">>, <<>>)}

OperationSelections == [commit : BOOLEAN, push : BOOLEAN, pr : BOOLEAN]

-----------------------------------------------------------------------------
(* git-automation.ts: pre-flight (execute_setup)                           *)

\* where main() goes next
Continue(next_pc) == [pc |-> next_pc, error |-> "", exit_code |-> -1]
\* an error reaches main's catch: handle_automation_error prints it, exit(1)
Throw(tag) == [pc |-> "exited", error |-> tag, exit_code |-> 1]
\* main returns normally
Finish == [pc |-> "exited", error |-> "", exit_code |-> 0]

Goto(nxt) ==
    /\ pc' = nxt.pc
    /\ error' = nxt.error
    /\ exit_code' = nxt.exit_code

\* TRUE when ensure_staging_state_with throws 'Not all changes are staged.'
staging_is_incomplete(stdout) ==
    LET split == SplitLines(stdout)
        lines == SelectSeq([i \in DOMAIN split |-> TrimEndChars(split[i])], NonEmptyLine)
        has_untracked == \E i \in DOMAIN lines : StartsWith(lines[i], <<"?", "?">>)
        has_unstaged == \E i \in DOMAIN lines : Len(lines[i]) >= 2 /\ lines[i][2] # " "
    IN  has_untracked \/ has_unstaged

get_staged_files(stdout) ==
    LET split == SplitLines(stdout)
    IN  SelectSeq([i \in DOMAIN split |-> TrimChars(split[i])], NonEmptyLine)

Includes(list, item) == \E i \in DOMAIN list : list[i] = item

\* /^[+-]\s*"version"\s*:/gmu.test(diff)
has_version_change(diff) ==
    \E i \in DOMAIN diff :
        /\ i = 1 \/ diff[i - 1] = "\n"
        /\ diff[i] \in {"+", "-"}
        /\ LET after_sign == TrimStartChars(SubSeq(diff, i + 1, Len(diff)))
           IN  /\ StartsWith(after_sign, <<VersionKey>>)
               /\ StartsWith(TrimStartChars(Tail(after_sign)), <<":">>)

\* a normalisation that goes by the first letter of the answer
normalize_yes_no_answer_by_initial(raw_answer) ==
    LET answer == ToLowerCase(TrimChars(raw_answer))
    IN  IF answer # <<>> /\ answer[1] \in {"y", "n"} THEN Some(<<answer[1]>>) ELSE None

normalize_yes_no_answer(raw_answer) ==
    LET answer == ToLowerCase(TrimChars(raw_answer))
    IN  IF answer = <<"y">> \/ answer = <<"n">> THEN Some(answer) ELSE None

\* the loop of ask_yes_no_binary over the answers typed, TRUE for 'y'
RECURSIVE ask_yes_no_binary(_)
ask_yes_no_binary(answers) ==
    LET normalized == normalize_yes_no_answer(Head(answers))
    IN  IF normalized # None THEN normalized[1] = <<"y">>
        ELSE ask_yes_no_binary(Tail(answers))

\* read_issue_line on piped input: the line, or None for 'Input is missing'
read_piped_issue_line(piped_input) ==
    LET split == SplitLines(piped_input)
        raw_lines == SelectSeq([i \in DOMAIN split |-> TrimChars(split[i])], NonEmptyLine)
        lines == IF raw_lines # <<>> /\ raw_lines[1] = SENTINEL
                 THEN Tail(raw_lines) ELSE raw_lines
    IN  IF lines = <<>> THEN None ELSE Some(lines[1])

GaEnsureStagingState ==
    /\ program = "automation" /\ pc = "ensure_staging_state"
    /\ \E raw \in StatusResults :
         LET ok == /\ ~run_command_throws(raw, FALSE)
                   /\ ~staging_is_incomplete(build_command_result(raw).stdout)
         IN  /\ log' = Append(log, Invocation("git status", <<>>, raw))
             /\ Goto(IF run_command_throws(raw, FALSE) THEN Throw("command")
                     ELSE IF ~ok THEN Throw("not_staged")
                     ELSE Continue("ensure_package_json_version"))
             /\ done' = IF ok THEN done \cup {"staging"} ELSE done
    /\ UNCHANGED <<program, tty, head, config, operations, current_branch, pr_info,
                   printed, running>>
    /\ UNCHANGED retry_vars

\* a confirmation that lets every answer through
confirmation_cancels_never(answers) == FALSE

\* `if (!should_continue) throw new AutomationError(OPERATION_CANCELLED_MESSAGE)`
confirmation_cancels(answers) == ~ask_yes_no_binary(answers)

has_package_json(files) ==
    Includes(get_staged_files(build_command_result(files).stdout), <<PACKAGE_JSON_FILE>>)

\* ensure_package_json_version behind ensure_prompt_interface: where main goes
ensure_package_json_version(files, diff, answers) ==
    IF run_command_throws(files, FALSE) THEN Throw("command")
    ELSE IF ~has_package_json(files)
    THEN (IF confirmation_cancels(answers) THEN Throw("cancelled")
          ELSE Continue("prepare_config"))
    ELSE IF run_command_throws(diff, FALSE) THEN Throw("command")
    ELSE IF has_version_change(build_command_result(diff).stdout)
    THEN Continue("prepare_config")
    ELSE IF confirmation_cancels(answers) THEN Throw("cancelled")
    ELSE Continue("prepare_config")

GaEnsurePackageJsonVersion ==
    /\ program = "automation" /\ pc = "ensure_package_json_version"
    /\ \E files \in StagedFilesResults, diff \in PackageDiffResults,
          answers \in AnswerScripts :
         LET files_entry == Invocation("git diff --name-only", <<>>, files)
             diff_entry == Invocation("git diff package.json", <<>>, diff)
         IN  IF ~tty
             THEN /\ Goto(Throw("tty_required"))
                  /\ UNCHANGED log
             ELSE /\ Goto(ensure_package_json_version(files, diff, answers))
                  /\ log' = IF run_command_throws(files, FALSE) \/ ~has_package_json(files)
                            THEN Append(log, files_entry)
                            ELSE log \o <<files_entry, diff_entry>>
    /\ UNCHANGED <<program, tty, head, config, operations, current_branch, pr_info,
                   done, printed, running>>
    /\ UNCHANGED retry_vars

\* prepare_config: read_issue_line, then parse_automation_config
GaPrepareConfig ==
    /\ program = "automation" /\ pc = "prepare_config"
    /\ \E typed \in IssueLines \cup MistypedLines, piped_input \in PipedInputs :
         LET issue_line == IF tty THEN Some(TrimChars(typed))
                           ELSE read_piped_issue_line(piped_input)
             parsed == parse_automation_config(issue_line[1])
         IN  IF issue_line = None
             THEN Goto(Throw("input_missing")) /\ UNCHANGED <<config, done>>
             ELSE IF ~parsed.ok
             THEN Goto(Throw("issue_format")) /\ UNCHANGED <<config, done>>
             ELSE /\ Goto(Continue("align_working_branch"))
                  /\ config' = [issue_title |-> parsed.issue_title,
                                issue_number |-> parsed.issue_number,
                                target_branch |-> parsed.target_branch]
                  /\ done' = done \cup {"issue_parsed"}
    /\ UNCHANGED <<program, tty, head, operations, current_branch, pr_info, log,
                   printed, running>>
    /\ UNCHANGED retry_vars

\* `git branch --show-current` prints the checked-out branch
CurrentBranchResults == {SpawnError, Exited(128, <<>>, <<>>), Exited(0, head \o <<"\n">>, <<>>)}

\* ensure_command_exists: spawnSync(command, ['--version'])
command_exists(raw) == ~raw.error /\ raw.status = Some(0)

\* align_working_branch: get_current_branch, ensure_branch_matches_issue,
\* resolve_branch_alignment, ensure_main_is_updated, create_branch
GaAlignWorkingBranch ==
    /\ program = "automation" /\ pc = "align_working_branch"
    /\ \E branch_raw \in CurrentBranchResults, pull \in PlainResults, create \in PlainResults :
         LET on_branch == TrimChars(build_command_result(branch_raw).stdout)
             alignment == resolve_branch_alignment(config.target_branch, on_branch)
             pull_target == IF on_branch = MasterBranch THEN MasterBranch ELSE MainBranch
             branch_entry == Invocation("git branch --show-current", <<>>, branch_raw)
             pull_entry == Invocation("git pull", pull_target, pull)
             create_entry == Invocation("git checkout -b", alignment.target_branch_name, create)
             pulled == IF alignment.should_pull_main THEN <<pull_entry>> ELSE <<>>
         IN  IF run_command_throws(branch_raw, FALSE)
             THEN /\ Goto(Throw("command"))
                  /\ log' = Append(log, branch_entry)
                  /\ UNCHANGED <<head, current_branch, printed, done>>
             ELSE IF ensure_branch_matches_issue_throws(on_branch, config.issue_number)
             THEN /\ Goto(Throw("branch_mismatch"))
                  /\ log' = Append(log, branch_entry)
                  /\ UNCHANGED <<head, current_branch, printed, done>>
             ELSE IF alignment.should_pull_main /\ run_command_throws(pull, FALSE)
             THEN /\ Goto(Throw("command"))
                  /\ log' = log \o <<branch_entry, pull_entry>>
                  /\ UNCHANGED <<head, current_branch, printed, done>>
             ELSE IF alignment.should_create_branch
             THEN /\ log' = log \o <<branch_entry>> \o pulled \o <<create_entry>>
                  /\ IF run_command_throws(create, FALSE)
                     THEN /\ Goto(Throw("command"))
                          /\ UNCHANGED <<head, current_branch, done>>
                     ELSE /\ Goto(Continue("ensure_issue_matches"))
                          /\ head' \in IF create.status = None
                                       THEN {head, alignment.target_branch_name}
                                       ELSE {alignment.target_branch_name}
                          /\ current_branch' = alignment.target_branch_name
                          /\ done' = done \cup {"branch_aligned"}
                  /\ UNCHANGED printed
             ELSE /\ log' = log \o <<branch_entry>> \o pulled
                  /\ Goto(Continue("ensure_issue_matches"))
                  /\ current_branch' = alignment.target_branch_name
                  /\ printed' = IF alignment.should_warn_about_name
                                THEN printed \cup {"branch_name_differs"} ELSE printed
                  /\ done' = done \cup {"branch_aligned"}
                  /\ UNCHANGED head
    /\ UNCHANGED <<program, tty, config, operations, pr_info, running>>
    /\ UNCHANGED retry_vars

\* a comparison that accepts any title
issue_title_differs_never(github_title, issue_title) == FALSE

\* github_title !== config.issue_title
issue_title_differs(github_title, issue_title) == github_title # issue_title

\* ensure_issue_matches and the end of execute_setup
GaEnsureIssueMatches ==
    /\ program = "automation" /\ pc = "ensure_issue_matches"
    /\ \E version \in PlainResults, view \in IssueViewResults :
         LET github_title == TrimChars(build_command_result(view).stdout)
             version_entry == Invocation("gh --version", <<>>, version)
             view_entry == InvocationPrinting("gh issue view", config.issue_number, view,
                               <<build_command_result(view).stdout>>)
             verdict == IF ~command_exists(version) THEN Throw("gh_missing")
                        ELSE IF run_command_throws(view, FALSE) THEN Throw("command")
                        ELSE IF github_title = <<>> THEN Throw("issue_not_found")
                        ELSE IF issue_title_differs(github_title, config.issue_title)
                        THEN Throw("issue_title")
                        ELSE Continue("select_operations")
         IN  /\ Goto(verdict)
             /\ log' = IF command_exists(version)
                       THEN log \o <<version_entry, view_entry>>
                       ELSE Append(log, version_entry)
             /\ done' = IF verdict.error = "" THEN done \cup {"issue_matched"} ELSE done
             /\ printed' = IF verdict.error = "" THEN printed \cup {"preflight_ok"}
                           ELSE printed
    /\ UNCHANGED <<program, tty, head, config, operations, current_branch, pr_info, running>>
    /\ UNCHANGED retry_vars

\* log_operation_summary: the lines that show an operation as switched off
log_operation_summary(selected) ==
    {"config_" \o operation \o "_off" :
        operation \in {o \in {"commit", "push", "pr"} : ~selected[o]}}

\* a round that takes the selection whatever the answer to 'Proceed?'
configure_operations_round_unconfirmed(for_commit, for_push, for_pr, for_proceed) ==
    [is_confirmed |-> TRUE,
     operations |-> [commit |-> ask_yes_no_binary(for_commit),
                     push |-> ask_yes_no_binary(for_push),
                     pr |-> ask_yes_no_binary(for_pr)]]

\* one round of the loop of configure_operations: prompt_operations_once,
\* log_operation_summary, 'Proceed? (y/n)'
configure_operations_round(for_commit, for_push, for_pr, for_proceed) ==
    [is_confirmed |-> ask_yes_no_binary(for_proceed),
     operations |-> [commit |-> ask_yes_no_binary(for_commit),
                     push |-> ask_yes_no_binary(for_push),
                     pr |-> ask_yes_no_binary(for_pr)]]

\* select_operations, one round of configure_operations at a time
GaSelectOperations ==
    /\ program = "automation" /\ pc = "select_operations"
    /\ \E for_commit \in AnswerScripts, for_push \in AnswerScripts, for_pr \in AnswerScripts,
          for_proceed \in AnswerScripts :
         LET round == configure_operations_round(for_commit, for_push, for_pr, for_proceed)
         IN  IF ~tty
             THEN /\ Goto(Throw("tty_required"))
                  /\ UNCHANGED <<operations, printed>>
             ELSE IF round.is_confirmed
             THEN /\ Goto(Continue("run_commit"))
                  /\ operations' = round.operations
                  /\ printed' = printed \cup log_operation_summary(round.operations)
                                        \cup {"run_summary"}
             ELSE /\ Goto(Continue("select_operations"))
                  /\ UNCHANGED <<operations, printed>>
    /\ UNCHANGED <<program, tty, head, config, current_branch, pr_info, log, done, running>>
    /\ UNCHANGED retry_vars

-----------------------------------------------------------------------------
(* git-automation.ts: execute_workflow                                     *)

\* `${config.issue_title} #${config.issue_number}`
commit_message(a_config) == a_config.issue_title \o <<" ", "#">> \o a_config.issue_number

run_commit_if_requested ==
    /\ program = "automation" /\ pc = "run_commit"
    /\ \E raw \in PlainResults :
         IF ~operations.commit
         THEN Goto(Continue("run_push")) /\ UNCHANGED log
         ELSE /\ log' = Append(log, Invocation("git commit", commit_message(config), raw))
              /\ Goto(IF run_command_throws(raw, FALSE) THEN Throw("command")
                      ELSE Continue("run_push"))
    /\ UNCHANGED <<program, tty, head, config, operations, current_branch, pr_info,
                   done, printed, running>>
    /\ UNCHANGED retry_vars

run_push_if_requested ==
    /\ program = "automation" /\ pc = "run_push"
    /\ \E raw \in PlainResults :
         IF ~operations.push
         THEN Goto(Continue("run_pr_flow")) /\ UNCHANGED log
         ELSE /\ log' = Append(log, Invocation("git push", current_branch, raw))
              /\ Goto(IF run_command_throws(raw, FALSE) THEN Throw("command")
                      ELSE Continue("run_pr_flow"))
    /\ UNCHANGED <<program, tty, head, config, operations, current_branch, pr_info,
                   done, printed, running>>
    /\ UNCHANGED retry_vars

\* `gh pr create ...`
PrCreateResults ==
    {SpawnError,
     Exited(0, << <<"https://pr">> >>, <<>>),
     Exited(1, << <<"a", "Pull", "Request", "for", "branch">> >>, << <<"ALREADY", "Exists">> >>),
     Exited(1, <<>>, << <<"branch", "already", "exists">> >>),
     Exited(1, <<>>, << <<"pull", "request", "create", "failed">> >>),
     Exited(1, <<>>, <<>>)}

\* run_pr_flow_if_requested up to the wait that opens watch_pull_request_checks;
\* without the PR operation, log_partial_completion and the end of main
GaCreatePullRequest ==
    /\ program = "automation" /\ pc = "run_pr_flow"
    /\ \E raw \in PrCreateResults :
         LET result == build_command_result(raw)
             command_output == collect_command_output(result)
         IN  IF ~operations.pr
             THEN /\ Goto(Finish)
                  /\ printed' = printed \cup {"selected_steps_done"}
                  /\ UNCHANGED log
             ELSE /\ log' = Append(log, InvocationPrinting("gh pr create", commit_message(config),
                                                          raw, command_output))
                  /\ IF run_command_throws(raw, TRUE)
                     THEN Goto(Throw("command")) /\ UNCHANGED printed
                     ELSE IF handle_pr_creation_result_throws(result, command_output)
                     THEN Goto(Throw("pr_create")) /\ printed' = printed \cup {"pr_failed"}
                     ELSE /\ Goto(Continue("watch_wait"))
                          /\ printed' = printed \cup
                                (IF result.status # 0 THEN {"existing_pr_reused"} ELSE {})
                                \cup {"pr_ok"}
    /\ UNCHANGED <<program, tty, head, config, operations, current_branch, pr_info,
                   done, running>>
    /\ UNCHANGED retry_vars

\* watch_pull_request_checks: the first wait_for, then retry_with_status starts
GaWatchBegin ==
    /\ program = "automation" /\ pc = "watch_wait"
    /\ retry_with_status_begin(CHECK_LABEL, None)
    /\ Goto(Continue("watch"))
    /\ UNCHANGED <<program, tty, head, config, operations, current_branch, pr_info,
                   log, done, printed, running>>

NoChecksText == << <<"No", "checks", "reported", "on", "the", "branch">> >>
SonarInProgressText == << <<"build", "fail">>, <<"SonarCloud", "In", "Progress">> >>
AllPassText == << <<"build", "Pass">>, <<"SonarCloud", "Pass", "https://sonar">> >>
BuildFailText == << <<"build", "fail">> >>
SonarSkippedText == << <<"build", "Pass">>, <<"SonarCloud", "skipping", "https://sonar">> >>

\* `gh pr checks --watch <branch>` with inherited stdio
WatchResults == {SpawnError, Exited(0, <<>>, <<>>), Exited(1, <<>>, <<>>)}

\* `gh pr checks <branch>` while the watch poll runs: checks not registered yet
WatchChecksResults ==
    {SpawnError,
     Exited(0, AllPassText, <<>>),
     Exited(1, <<>>, NoChecksText),
     Exited(1, BuildFailText, <<>>),
     Exited(1, <<>>, <<>>)}

\* `gh pr checks <branch>` while the report poll runs: checks registered
ReportChecksResults ==
    {SpawnError,
     Exited(0, AllPassText, <<>>),
     Exited(0, SonarSkippedText, <<>>),
     Exited(8, SonarInProgressText, <<>>),
     Exited(1, BuildFailText, <<>>),
     Exited(1, <<>>, <<>>)}

CommandError == << <<"Command", "execution", "failed">> >>

\* create_watch_retry_config(branch).execute
watch_execute(watch, checks, an_attempt, a_max) ==
    LET result == build_command_result(watch)
        command_output == collect_command_output(build_command_result(checks))
    IN  IF run_command_throws(watch, TRUE) THEN StepThrow(CommandError)
        ELSE IF result.status = 0
        THEN Probed(StepSuccess(<<>>, Some(RetryDetails(result.stdout, Some(result.stdout)))),
                    0, result.stdout)
        ELSE IF run_command_throws(checks, TRUE) THEN StepThrow(CommandError)
        ELSE Probed(evaluate_poll_retry("checks", command_output, an_attempt, a_max),
                    result.status, command_output)

\* build_report_retry_config(branch).execute
report_execute(checks, an_attempt, a_max) ==
    LET result == build_command_result(checks)
        command_output == collect_command_output(result)
        details == Some(RetryDetails(command_output, Some(command_output)))
    IN  IF run_command_throws(checks, TRUE) THEN StepThrow(CommandError)
        ELSE IF result.status = 0
        THEN Probed(StepSuccess(command_output, details), 0, command_output)
        ELSE Probed(evaluate_poll_retry("report", command_output, an_attempt, a_max),
                    result.status, command_output)

\* one attempt of a poll's execute, then process_retry_attempt: the watch
\* poll when `watched` is TRUE, else the report poll
PollAttempt(watched, watch_results, checks_results) ==
    /\ \E watch \in watch_results, checks \in checks_results :
         LET watch_entry == Invocation("gh pr checks --watch", current_branch, watch)
             checks_entry == Invocation("gh pr checks", current_branch, checks)
             fetched == IF watched
                        THEN /\ ~run_command_throws(watch, TRUE)
                             /\ build_command_result(watch).status # 0
                        ELSE TRUE
             evaluated == /\ fetched
                          /\ ~run_command_throws(checks, TRUE)
                          /\ watched \/ build_command_result(checks).status # 0
             command_output == collect_command_output(build_command_result(checks))
         IN  /\ process_retry_attempt(
                    IF watched THEN watch_execute(watch, checks, attempt, max_attempts)
                    ELSE report_execute(checks, attempt, max_attempts))
             /\ log' = log \o (IF watched THEN <<watch_entry>> ELSE <<>>)
                           \o (IF fetched THEN <<checks_entry>> ELSE <<>>)
             /\ printed' = IF evaluated
                           THEN printed \cup check_phase_messages(
                                    IF watched THEN "checks" ELSE "report",
                                    command_output, attempt, max_attempts)
                           ELSE printed
    /\ UNCHANGED <<program, tty, pc, error, exit_code, head, config, operations,
                   current_branch, pr_info, done, running>>

\* one attempt of the watch poll
GaWatchAttempt ==
    /\ program = "automation" /\ pc = "watch"
    /\ PollAttempt(TRUE, WatchResults, WatchChecksResults)

\* retry_with_status rejected: the error reaches main's catch
GaPollThrew ==
    /\ program = "automation" /\ pc \in {"watch", "report"}
    /\ rpc = "threw"
    /\ Goto(Throw(IF pc = "watch" THEN "watch_failed" ELSE "report_failed"))
    /\ UNCHANGED <<program, tty, head, config, operations, current_branch, pr_info,
                   log, done, printed, running>>
    /\ UNCHANGED retry_vars

\* `gh pr view <branch> --json url,title,number`: the words of stdout
PrViewResults ==
    {SpawnError, Exited(1, <<>>, <<>>),
     Exited(0, <<"{", "url", "title", "number", "}">>, <<>>),
     Exited(0, <<"{", "title", "}">>, <<>>),
     Exited(0, <<"not", "json">>, <<>>),
     Exited(0, <<>>, <<>>)}
PrUrl == <<"https://pr">>
PrTitle == <<"Fix", "#42">>

\* a parser that accepts any text
parse_pr_info_never_throws(stdout) == FALSE

\* TRUE when JSON.parse throws in parse_pr_info
parse_pr_info_throws(stdout) ==
    ~(Len(stdout) >= 2 /\ stdout[1] = "{" /\ stdout[Len(stdout)] = "}")

parse_pr_info(stdout) ==
    [url |-> IF Includes(stdout, "url") THEN Some(PrUrl) ELSE None,
     title |-> IF Includes(stdout, "title") THEN Some(PrTitle) ELSE None]

\* the watch poll returned; evaluate_sonar_checks up to the start of
\* collect_report_output: fetch_pr_info, then retry_with_status starts
GaFetchPrInfo ==
    /\ program = "automation" /\ pc = "watch"
    /\ rpc = "returned"
    /\ \E view \in PrViewResults :
         LET stdout == build_command_result(view).stdout
             printed_json == IF stdout = <<>> THEN <<>> ELSE <<stdout>>
         IN  /\ log' = Append(log, InvocationPrinting("gh pr view", current_branch, view,
                                                      printed_json))
             /\ IF run_command_throws(view, FALSE) \/ parse_pr_info_throws(stdout)
                THEN /\ Goto(Throw(IF run_command_throws(view, FALSE) THEN "command"
                                   ELSE "pr_info_parse"))
                     /\ UNCHANGED pr_info
                     /\ UNCHANGED retry_vars
                ELSE /\ Goto(Continue("report"))
                     /\ pr_info' = parse_pr_info(stdout)
                     /\ retry_with_status_begin(REPORT_LABEL, None)
    /\ UNCHANGED <<program, tty, head, config, operations, current_branch,
                   done, printed, running>>

\* one attempt of the report poll
GaReportAttempt ==
    /\ program = "automation" /\ pc = "report"
    /\ PollAttempt(FALSE, {SpawnError}, ReportChecksResults)

\* String.prototype.includes(part) on one word of the outputs
WordIncludes(word, part) ==
    \/ word = part
    \/ part = "pass" /\ word \in {"passed", "passing", "bypass"}
    \/ part = "success" /\ word \in {"successful", "unsuccessful"}
    \/ part = "sonarcloud" /\ word \in {"sonarcloud/code"}

LineIncludes(line, part) == \E i \in DOMAIN line : WordIncludes(line[i], part)

\* extract_sonar_line: None when no line mentions sonarcloud
extract_sonar_line(command_output) ==
    LET normalized == LowerText(command_output)
        hits == {i \in DOMAIN normalized : LineIncludes(normalized[i], "sonarcloud")}
    IN  IF hits = {} THEN None
        ELSE Some(command_output[CHOOSE i \in hits : \A j \in hits : i <= j])

sonar_checks_failed(line) ==
    IF line = None THEN FALSE
    ELSE LET normalized == LowerLine(line[1])
         IN  ~LineIncludes(normalized, "pass") /\ ~LineIncludes(normalized, "success")

\* TRUE when enforce_sonar_success throws
enforce_sonar_success_throws(command_output) ==
    sonar_checks_failed(extract_sonar_line(command_output))

\* /https?:\/\/\S+/u matches inside the word
IsUrlWord(word) == word \in {"https://sonar", "http://sonar", "https://pr"}

\* a resolver that always answers with the pull request's own URL
resolve_sonar_url_of_pr(line, a_pr_info) ==
    IF a_pr_info.url # None THEN a_pr_info.url[1][1] ELSE ""

\* resolve_sonar_url: the first URL of the line, else pr_info.url ?? ''
resolve_sonar_url(line, a_pr_info) ==
    LET from_pr == IF a_pr_info.url # None THEN a_pr_info.url[1][1] ELSE ""
    IN  IF line = None THEN from_pr
        ELSE LET hits == {i \in DOMAIN line[1] : IsUrlWord(line[1][i])}
             IN  IF hits = {} THEN from_pr
                 ELSE line[1][CHOOSE i \in hits : \A j \in hits : i <= j]

\* the 'Details: <url>' line of the message enforce_sonar_success throws
sonar_details(command_output, a_pr_info) ==
    "Details: " \o resolve_sonar_url(extract_sonar_line(command_output), a_pr_info)

\* the report poll returned: enforce_sonar_success, log_pr_completion, main ends
GaReportFinished ==
    /\ program = "automation" /\ pc = "report"
    /\ rpc = "returned"
    /\ IF enforce_sonar_success_throws(outcome.text)
       THEN /\ Goto(Throw("sonar"))
            /\ printed' = printed \cup {"SonarCloud found issues.",
                                        sonar_details(outcome.text, pr_info)}
       ELSE /\ Goto(Finish)
            /\ printed' = printed \cup {"all_complete", "Status: All checks passed"}
                            \cup (IF pr_info.url # None THEN {"pr_url"} ELSE {})
                            \cup (IF pr_info.title # None THEN {"pr_title"} ELSE {})
    /\ UNCHANGED <<program, tty, head, config, operations, current_branch, pr_info,
                   log, done, running>>
    /\ UNCHANGED retry_vars

\* the delay between two attempts of a PR poll
GaRetryDelay ==
    /\ program = "automation"
    /\ RetryDelayElapsed

-----------------------------------------------------------------------------
(* git-workflow.ts and scripts/git/*: the interactive workflow script      *)

\* promisified exec rejects on spawn failure, non-zero exit and signal;
\* so does the close handler of exec_git_command_with_output (code !== 0)
exec_rejects(raw) == raw.error \/ raw.status # Some(0)

\* exec_git_command / exec_gh_command: stdout.trimEnd()
exec_output(raw) == TrimEndChars(raw.stdout)

parse_status_lines(status_output) ==
    LET split == SplitLines(status_output)
    IN  SelectSeq([i \in DOMAIN split |-> TrimEndChars(split[i])], NonEmptyLine)

is_staged_file(line) ==
    /\ Len(line) >= 2
    /\ ~StartsWith(line, <<"?", "?">>)
    /\ line[1] # " "

is_package_json_staged(status_output) ==
    LET lines == parse_status_lines(status_output)
    IN  \E i \in DOMAIN lines :
            /\ is_staged_file(lines[i])
            /\ TrimChars(SliceFrom(lines[i], 2)) = <<PACKAGE_JSON_FILE>>

\* /^[+-].*"version"\s*:/u on each line of the diff
is_version_updated_in_diff(diff_output) ==
    LET lines == SplitLines(diff_output)
    IN  \E i \in DOMAIN lines :
            /\ lines[i] # <<>> /\ lines[i][1] \in {"+", "-"}
            /\ \E k \in 2..Len(lines[i]) :
                   /\ lines[i][k] = VersionKey
                   /\ StartsWith(TrimStartChars(SubSeq(lines[i], k + 1, Len(lines[i]))),
                                 <<":">>)

\* with_prompt(ask_yes_no, false): the fallback answers for a missing terminal
confirm(answers) == IF tty THEN ask_yes_no_binary(answers) ELSE FALSE

\* git_error.handle and the process.exit(1) calls of the script
Exit1(tag) == Throw(tag)

\* confirm_with_exit_on_cancel: TRUE when it ends the process
confirm_with_exit_on_cancel(answers) == ~confirm(answers)

\* check_and_confirm_staging: where main goes
check_and_confirm_staging(status, diff, for_unstaged, for_package) ==
    LET status_output == exec_output(status)
        diff_output == IF exec_rejects(diff) THEN <<>> ELSE exec_output(diff)
    IN  IF exec_rejects(status) THEN Exit1("command")
        ELSE IF staging_is_incomplete(status_output) /\ confirm_with_exit_on_cancel(for_unstaged)
        THEN Exit1("cancelled")
        ELSE IF ~is_package_json_staged(status_output)
        THEN (IF confirm_with_exit_on_cancel(for_package) THEN Exit1("cancelled")
              ELSE Continue("current"))
        ELSE IF is_version_updated_in_diff(diff_output) THEN Continue("current")
        ELSE IF confirm_with_exit_on_cancel(for_package) THEN Exit1("cancelled")
        ELSE Continue("current")

GwCheckAndConfirmStaging ==
    /\ program = "workflow" /\ pc = "check_and_confirm_staging"
    /\ \E status \in StatusResults, diff \in PackageDiffResults,
          for_unstaged \in AnswerScripts, for_package \in AnswerScripts :
         LET status_output == exec_output(status)
             status_entry == Invocation("git status", <<>>, status)
             diff_entry == Invocation("git diff package.json", <<>>, diff)
             has_unstaged == staging_is_incomplete(status_output)
             is_staged == is_package_json_staged(status_output)
             verdict == check_and_confirm_staging(status, diff, for_unstaged, for_package)
         IN  /\ Goto(verdict)
             /\ log' = IF exec_rejects(status) \/ (has_unstaged /\ ~confirm(for_unstaged))
                       THEN Append(log, status_entry)
                       ELSE IF ~is_staged THEN log \o <<status_entry, status_entry>>
                       ELSE log \o <<status_entry, status_entry, diff_entry>>
             /\ done' = IF verdict.error = "" THEN done \cup {"staging"} ELSE done
             /\ printed' = IF ~exec_rejects(status) /\ has_unstaged /\ confirm(for_unstaged)
                           THEN printed \cup {"unstaged_accepted"} ELSE printed
    /\ UNCHANGED <<program, tty, head, config, operations, current_branch, pr_info, running>>
    /\ UNCHANGED retry_vars

\* git_branch.current
GwCurrent ==
    /\ program = "workflow" /\ pc = "current"
    /\ \E raw \in CurrentBranchResults :
         /\ log' = Append(log, Invocation("git rev-parse", <<>>, raw))
         /\ IF exec_rejects(raw)
            THEN Goto(Exit1("command")) /\ UNCHANGED current_branch
            ELSE Goto(Continue("get_and_display")) /\ current_branch' = exec_output(raw)
    /\ UNCHANGED <<program, tty, head, config, operations, pr_info, done, printed, running>>
    /\ UNCHANGED retry_vars

\* git_issue.get_and_display: get_issue_info asks for the line (with_prompt
\* without fallback), the Issue Parser turns it into the IssueInfo
GwGetAndDisplay ==
    /\ program = "workflow" /\ pc = "get_and_display"
    /\ \E typed \in IssueLines :
         LET parsed == parse_automation_config(TrimChars(typed))
         IN  IF ~tty
             THEN Goto(Exit1("tty_required")) /\ UNCHANGED <<config, done>>
             ELSE IF ~parsed.ok
             THEN Goto(Exit1("issue_format")) /\ UNCHANGED <<config, done>>
             ELSE /\ Goto(Continue("check_and_create_branch"))
                  /\ config' = [issue_title |-> parsed.issue_title,
                                issue_number |-> parsed.issue_number,
                                target_branch |-> parsed.target_branch]
                  /\ done' = done \cup {"issue_parsed"}
    /\ UNCHANGED <<program, tty, head, operations, current_branch, pr_info, log,
                   printed, running>>
    /\ UNCHANGED retry_vars

\* `git branch --list <target>`
BranchListResults ==
    {SpawnError, Exited(0, <<>>, <<>>),
     Exited(0, <<" ", " ">> \o config.target_branch \o <<"\n">>, <<>>)}

\* a check that reports the branch whenever the command succeeded
branch_exists_when_listed(raw) == ~exec_rejects(raw)

\* git_command.branch_exists: a failing check counts as 'does not exist'
branch_exists(raw) == IF exec_rejects(raw) THEN FALSE ELSE TrimChars(exec_output(raw)) # <<>>

\* git_branch.check_and_create_branch
GwCheckAndCreateBranch ==
    /\ program = "workflow" /\ pc = "check_and_create_branch"
    /\ \E list \in BranchListResults, checkout \in PlainResults :
         LET list_entry == InvocationPrinting("git branch --list", config.target_branch, list,
                                              <<list.stdout>>)
             checkout_entry ==
                 Invocation(IF branch_exists(list) THEN "git checkout" ELSE "git checkout -b",
                            config.target_branch, checkout)
         IN  IF current_branch = MainBranch
             THEN /\ log' = log \o <<list_entry, checkout_entry>>
                  /\ IF exec_rejects(checkout)
                     THEN Goto(Exit1("command")) /\ UNCHANGED <<head, done>>
                     ELSE /\ Goto(Continue("commit_changes"))
                          /\ head' = config.target_branch
                          /\ done' = done \cup {"branch_aligned"}
                  /\ UNCHANGED printed
             ELSE IF current_branch # config.target_branch
             THEN /\ Goto(Exit1("branch_mismatch"))
                  /\ printed' = printed \cup {"branch_mismatch"}
                  /\ UNCHANGED <<log, head, done>>
             ELSE /\ Goto(Continue("commit_changes"))
                  /\ done' = done \cup {"branch_aligned"}
                  /\ UNCHANGED <<log, head, printed>>
    /\ UNCHANGED <<program, tty, config, operations, current_branch, pr_info, running>>
    /\ UNCHANGED retry_vars

\* a child process spawned and awaited: it is in flight until it closes
Started(cmd, arg) == [cmd |-> cmd, arg |-> arg, exit |-> "running", output |-> <<>>]
Closed(history, raw) == [history EXCEPT ![Len(history)].exit = ExitOf(raw)]

\* SKIP_MESSAGE_COMMIT, SKIP_MESSAGE_PUSH, SKIP_MESSAGE_PR
SKIP_MESSAGE(cmd) == cmd \o "_skipped"

\* a gate that runs the action whatever the answer
execute_with_confirmation_regardless(answers, skip_message) ==
    [should_execute |-> TRUE, info |-> {}]

\* execute_with_confirmation: whether the action runs, and what is printed
execute_with_confirmation(answers, skip_message) ==
    IF confirm(answers) THEN [should_execute |-> TRUE, info |-> {}]
    ELSE [should_execute |-> FALSE, info |-> {skip_message}]

\* a step behind execute_with_confirmation: the question, then the skip
\* message or the start of the action's child process
GwConfirmStep(step, cmd, arg, skip_to) ==
    /\ pc = step
    /\ \E answers \in AnswerScripts :
         IF execute_with_confirmation(answers, SKIP_MESSAGE(cmd)).should_execute
         THEN /\ pc' = step \o "_running"
              /\ running' = running \cup {cmd}
              /\ log' = Append(log, Started("git " \o cmd, arg))
              /\ operations' = [operations EXCEPT ![cmd] = TRUE]
              /\ UNCHANGED <<printed, error, exit_code>>
         ELSE /\ Goto(skip_to)
              /\ printed' = printed \cup
                                execute_with_confirmation(answers, SKIP_MESSAGE(cmd)).info
              /\ UNCHANGED <<running, log, operations>>
    /\ UNCHANGED <<program, tty, head, config, current_branch, pr_info, done>>
    /\ UNCHANGED retry_vars

\* the child closes: resolve on code 0, reject otherwise
GwStepCloses(step, cmd, next_step) ==
    /\ pc = step \o "_running"
    /\ cmd \in running
    /\ \E raw \in PlainResults :
         /\ running' = running \ {cmd}
         /\ log' = Closed(log, raw)
         /\ Goto(IF exec_rejects(raw) THEN Exit1("command") ELSE Continue(next_step))
    /\ UNCHANGED <<program, tty, head, config, operations, current_branch, pr_info,
                   done, printed>>
    /\ UNCHANGED retry_vars

\* commit_changes
GwCommitChanges ==
    /\ program = "workflow"
    /\ GwConfirmStep("commit_changes", "commit", commit_message(config),
                     Continue("push_changes"))

GwCommitCloses ==
    /\ program = "workflow"
    /\ GwStepCloses("commit_changes", "commit", "push_changes")

\* push_changes
GwPushChanges ==
    /\ program = "workflow"
    /\ GwConfirmStep("push_changes", "push", <<>>, Continue("create_pr"))

GwPushCloses ==
    /\ program = "workflow"
    /\ GwStepCloses("push_changes", "push", "create_pr")

MaxStatusPolls == 2

\* `gh pr view <branch>`: does a PR exist
PrExistsResults == {Exited(0, <<>>, <<>>), Exited(1, <<>>, <<>>)}

\* git-command.ts: error_message.toLowerCase().includes('already exists')
is_pr_already_exists_message(error_message) ==
    IncludesPhrase(LowerText(error_message), <<"already", "exists">>)

\* get_error_message_with_stderr: the part of the message the command wrote
get_error_message_with_stderr(raw) == raw.stderr

\* handle_pr_create_error: the error that leaves pr_create
handle_pr_create_error(raw) ==
    IF is_pr_already_exists_message(get_error_message_with_stderr(raw))
    THEN "PR_ALREADY_EXISTS"
    ELSE "pr_create"

\* create_pr: the question; git_pr.create up to the wait for the status checks
GwCreatePr ==
    /\ program = "workflow" /\ pc = "create_pr"
    /\ \E answers \in AnswerScripts, view \in PrExistsResults,
          create \in PlainResults \cup PrCreateResults :
         LET has_pr == ~exec_rejects(view)
             view_entry == Invocation("gh pr view", config.target_branch, view)
             create_entry == InvocationPrinting("gh pr create", commit_message(config), create,
                                                create.stdout \o create.stderr)
             gate == execute_with_confirmation(answers, SKIP_MESSAGE("pr"))
         IN  IF ~gate.should_execute
             THEN /\ Goto(Finish)
                  /\ printed' = printed \cup gate.info
                  /\ UNCHANGED <<log, operations>>
             ELSE /\ operations' = [operations EXCEPT !.pr = TRUE]
                  /\ UNCHANGED printed
                  /\ IF has_pr
                     THEN /\ log' = Append(log, view_entry)
                          /\ Goto(Continue("wait_for_status_available"))
                     ELSE /\ log' = log \o <<view_entry, create_entry>>
                          /\ Goto(IF exec_rejects(create)
                                  THEN Exit1(handle_pr_create_error(create))
                                  ELSE Continue("wait_for_status_available"))
    /\ UNCHANGED <<program, tty, head, config, current_branch, pr_info, done, running>>
    /\ UNCHANGED retry_vars

StatusPolls == Cardinality({i \in DOMAIN log : log[i].cmd = "gh pr checks"})

\* one round of wait_for_status_available: check_pr_status, then return or wait
GwWaitForStatusAvailable ==
    /\ program = "workflow" /\ pc = "wait_for_status_available"
    /\ StatusPolls < MaxStatusPolls
    /\ \E checks \in WatchChecksResults :
         LET output == IF exec_rejects(checks) THEN <<>> ELSE checks.stdout
         IN  /\ log' = Append(log, Invocation("gh pr checks", config.target_branch, checks))
             /\ Goto(IF output # <<>> /\ ~is_no_checks_reported_message(output)
                     THEN Continue("pr_checks_watch")
                     ELSE Continue("wait_for_status_available"))
    /\ UNCHANGED <<program, tty, head, config, operations, current_branch, pr_info,
                   done, printed, running>>
    /\ UNCHANGED retry_vars

\* `gh pr view <branch> --json mergeable,mergeStateStatus,state`
PrStateResults ==
    {Exited(1, <<>>, <<>>),
     Exited(0, <<"{", "mergeable:true", "mergeStateStatus:clean", "state:open", "}">>, <<>>),
     Exited(0, <<"{", "mergeable:false", "mergeStateStatus:dirty", "state:open", "}">>, <<>>),
     Exited(0, <<"{", "mergeable:true", "mergeStateStatus:clean", "state:closed", "}">>, <<>>),
     Exited(0, <<"not", "json">>, <<>>)}

is_pr_state_invalid(pr_json) ==
    Includes(pr_json, "state:closed") \/ Includes(pr_json, "state:draft")

check_conflict_conditions(pr_json) ==
    IF Includes(pr_json, "mergeable:false") THEN TRUE
    ELSE IF Includes(pr_json, "mergeStateStatus:dirty")
            \/ Includes(pr_json, "mergeStateStatus:blocked") THEN TRUE
    ELSE ~is_pr_state_invalid(pr_json)

has_conflicts(pr_info_json) ==
    IF parse_pr_info_throws(pr_info_json) THEN FALSE
    ELSE check_conflict_conditions(pr_info_json)

\* the rest of wait_and_check_status: pr_checks_watch, check_pr_status_for_errors
GwWatchAndCheckStatus ==
    /\ program = "workflow" /\ pc = "pr_checks_watch"
    /\ \E watch \in WatchResults, view \in PrStateResults :
         LET watch_entry == Invocation("gh pr checks --watch", config.target_branch, watch)
             pr_info_json == IF exec_rejects(view) THEN <<>> ELSE view.stdout
             view_entry == InvocationPrinting("gh pr view", config.target_branch, view,
                               IF pr_info_json = <<>> THEN <<>> ELSE <<pr_info_json>>)
         IN  IF exec_rejects(watch)
             THEN /\ Goto(Exit1("command"))
                  /\ log' = Append(log, watch_entry)
                  /\ UNCHANGED printed
             ELSE /\ log' = log \o <<watch_entry, view_entry>>
                  /\ IF pr_info_json # <<>> /\ has_conflicts(pr_info_json)
                     THEN Goto(Exit1("conflict")) /\ printed' = printed \cup {"conflict"}
                     ELSE Goto(Finish) /\ printed' = printed \cup {"status_checks_completed"}
    /\ UNCHANGED <<program, tty, head, config, operations, current_branch, pr_info,
                   done, running>>
    /\ UNCHANGED retry_vars

-----------------------------------------------------------------------------
(* Whole runs                                                              *)

\* retry_with_status has not been called yet
RetryIdle ==
    /\ rpc = "idle"
    /\ attempt = 0
    /\ max_attempts = 0
    /\ label = ""
    /\ last_retry_details = None
    /\ calls = <<>>
    /\ delays = 0
    /\ outcome = [type |-> "none", text |-> <<>>]
    /\ script = <<>>

InitAutomation ==
    /\ program = "automation"
    /\ tty \in BOOLEAN
    /\ pc = "ensure_staging_state"
    /\ error = ""
    /\ exit_code = -1
    /\ head \in Branches
    /\ config = NoConfig
    /\ operations = NoOperations
    /\ current_branch = <<>>
    /\ pr_info = NoPrInfo
    /\ log = <<>>
    /\ done = {}
    /\ printed = {}
    /\ running = {}
    /\ RetryIdle

NextAutomation ==
    \/ GaEnsureStagingState
    \/ GaEnsurePackageJsonVersion
    \/ GaPrepareConfig
    \/ GaAlignWorkingBranch
    \/ GaEnsureIssueMatches
    \/ GaSelectOperations
    \/ run_commit_if_requested
    \/ run_push_if_requested
    \/ GaCreatePullRequest
    \/ GaWatchBegin
    \/ GaWatchAttempt
    \/ GaFetchPrInfo
    \/ GaReportAttempt
    \/ GaReportFinished
    \/ GaPollThrew
    \/ GaRetryDelay

InitWorkflow ==
    /\ program = "workflow"
    /\ tty \in BOOLEAN
    /\ pc = "check_and_confirm_staging"
    /\ error = ""
    /\ exit_code = -1
    /\ head \in Branches
    /\ config = NoConfig
    /\ operations = NoOperations
    /\ current_branch = <<>>
    /\ pr_info = NoPrInfo
    /\ log = <<>>
    /\ done = {}
    /\ printed = {}
    /\ running = {}
    /\ RetryIdle

NextWorkflow ==
    \/ GwCheckAndConfirmStaging
    \/ GwCurrent
    \/ GwGetAndDisplay
    \/ GwCheckAndCreateBranch
    \/ GwCommitChanges
    \/ GwCommitCloses
    \/ GwPushChanges
    \/ GwPushCloses
    \/ GwCreatePr
    \/ GwWaitForStatusAvailable
    \/ GwWatchAndCheckStatus

Init == InitAutomation \/ InitWorkflow

Next == NextAutomation \/ NextWorkflow

Spec == Init /\ [][Next]_vars

-----------------------------------------------------------------------------
(* The yes/no question on its own, one answer at a time                    *)

MaxAnswers == 3

\* what the user may type at the question
RawAnswers ==
    { <<"y">>, <<"n">>, <<" ", "Y", " ">>, <<"N", "\n">>,
      <<>>, <<" ">>, <<"y", "e", "s">>, <<"n", "o">>, <<"y", "n">> }

\* git-prompt.ts: the answer is compared after trim and toLowerCase
is_valid_yes_no_answer(answer) == answer = <<"y">> \/ answer = <<"n">>

Answered(raw_answer) ==
    [cmd |-> "question", arg |-> raw_answer, exit |-> "answered", output |-> <<>>]

Returned(is_yes) == IF is_yes THEN "returned_true" ELSE "returned_false"

InitPrompt ==
    /\ program = "prompt"
    /\ tty = TRUE
    /\ pc \in {"ask_yes_no_binary", "ask_yes_no"}
    /\ error = ""
    /\ exit_code = -1
    /\ head = <<>>
    /\ config = NoConfig
    /\ operations = NoOperations
    /\ current_branch = <<>>
    /\ pr_info = NoPrInfo
    /\ log = <<>>
    /\ done = {}
    /\ printed = {}
    /\ running = {}
    /\ RetryIdle

\* one turn of the loop of ask_yes_no_binary: question, answer, and either
\* the return or 'Reply y / n.'
AskYesNoBinary ==
    /\ program = "prompt" /\ pc = "ask_yes_no_binary"
    /\ Len(log) < MaxAnswers
    /\ \E raw_answer \in RawAnswers :
         LET normalized == normalize_yes_no_answer(raw_answer)
         IN  /\ log' = Append(log, Answered(raw_answer))
             /\ IF normalized # None
                THEN pc' = Returned(normalized[1] = <<"y">>) /\ UNCHANGED printed
                ELSE pc' = pc /\ printed' = printed \cup {"reply_y_n"}
    /\ UNCHANGED <<program, tty, error, exit_code, head, config, operations,
                   current_branch, pr_info, done, running>>
    /\ UNCHANGED retry_vars

\* one call of ask_yes_no_internal: question, answer, and either the return
\* or the invalid-answer message and the recursive call
AskYesNoInternal ==
    /\ program = "prompt" /\ pc = "ask_yes_no"
    /\ Len(log) < MaxAnswers
    /\ \E raw_answer \in RawAnswers :
         LET answer == ToLowerCase(TrimChars(raw_answer))
         IN  /\ log' = Append(log, Answered(raw_answer))
             /\ IF is_valid_yes_no_answer(answer)
                THEN pc' = Returned(answer = <<"y">>) /\ UNCHANGED printed
                ELSE pc' = pc /\ printed' = printed \cup {"reply_y_n"}
    /\ UNCHANGED <<program, tty, error, exit_code, head, config, operations,
                   current_branch, pr_info, done, running>>
    /\ UNCHANGED retry_vars

NextPrompt ==
    \/ AskYesNoBinary
    \/ AskYesNoInternal

SpecPrompt == InitPrompt /\ [][NextPrompt]_vars

-----------------------------------------------------------------------------
(* The helper functions on their own, one call per behaviour              *)

MaxExitCode == 8
MaxLineLen == 5
MaxTitleLen == 4

\* the characters issue lines and titles are typed from; e' is a precomposed
\* accented letter
TypedChars == {"a", "B", "7", " ", "#", "e'"}
TitleChars == TypedChars \cup {"-"}

\* the prefix of an issue line: none, plain, or capitals followed by a blank
TypedPrefixes == {<<>>, IssuePrefix, <<"I", "S", "S", "U", "E", ":", " ">>}

\* every typed issue line of at most MaxLineLen characters after the prefix
TypedLines ==
    {prefix \o body : prefix \in TypedPrefixes,
                      body \in UNION {[1..n -> TypedChars] : n \in 0..MaxLineLen}}

\* every title of at most MaxTitleLen characters
Titles == UNION {[1..n -> TitleChars] : n \in 0..MaxTitleLen}

\* what spawnSync may hand back: a spawn error, an exit code, or a signal
SpawnResults ==
    {SpawnError}
    \cup {SpawnResult(FALSE, status, stdout, stderr) :
              status \in {None} \cup {Some(code) : code \in 0..MaxExitCode},
              stdout \in {<<>>, AllPassText},
              stderr \in {<<>>, CommandError}}

\* one call of a helper: its arguments and what it returned or that it threw
Called(function, arguments, has_thrown, value) ==
    [cmd |-> function, arg |-> arguments,
     exit |-> IF has_thrown THEN "threw" ELSE "returned",
     output |-> IF has_thrown THEN <<>> ELSE <<value>>]

\* one call of a helper that cannot throw; `value` is a record
CalledReturning(function, arguments, value) ==
    [cmd |-> function, arg |-> arguments, exit |-> "returned", output |-> <<value>>]

InitCalls ==
    /\ program = "calls"
    /\ tty = TRUE
    /\ pc = "call"
    /\ error = ""
    /\ exit_code = -1
    /\ head = <<>>
    /\ config = NoConfig
    /\ operations = NoOperations
    /\ current_branch = <<>>
    /\ pr_info = NoPrInfo
    /\ log = <<>>
    /\ done = {}
    /\ printed = {}
    /\ running = {}
    /\ RetryIdle

\* run_command(command, arguments_list, {should_allow_non_zero_exit})
CallRunCommand ==
    /\ program = "calls" /\ pc = "call"
    /\ \E raw \in SpawnResults, should_allow_non_zero_exit \in BOOLEAN :
         log' = << Called("run_command", <<raw, should_allow_non_zero_exit>>,
                          run_command_throws(raw, should_allow_non_zero_exit),
                          build_command_result(raw)) >>
    /\ pc' = "called"
    /\ UNCHANGED <<program, tty, error, exit_code, head, config, operations,
                   current_branch, pr_info, done, printed, running>>
    /\ UNCHANGED retry_vars

\* parse_automation_config(issue_line): parse_issue_line, generate_target_branch
CallParseAutomationConfig ==
    /\ program = "calls" /\ pc = "call"
    /\ \E issue_line \in TypedLines :
         LET parsed == parse_automation_config(issue_line)
         IN  log' = << Called("parse_automation_config", <<issue_line>>, ~parsed.ok,
                              [issue_title |-> parsed.issue_title,
                               issue_number |-> parsed.issue_number,
                               target_branch |-> parsed.target_branch]) >>
    /\ pc' = "called"
    /\ UNCHANGED <<program, tty, error, exit_code, head, config, operations,
                   current_branch, pr_info, done, printed, running>>
    /\ UNCHANGED retry_vars

\* sanitize_branch_slug(title)
CallSanitizeBranchSlug ==
    /\ program = "calls" /\ pc = "call"
    /\ \E title \in Titles :
         log' = << CalledReturning("sanitize_branch_slug", <<title>>,
                                   [slug |-> sanitize_branch_slug(title)]) >>
    /\ pc' = "called"
    /\ UNCHANGED <<program, tty, error, exit_code, head, config, operations,
                   current_branch, pr_info, done, printed, running>>
    /\ UNCHANGED retry_vars

MaxStatusLines == 2

\* XY codes of `git status --porcelain`: staged, unstaged, both, untracked
StatusCodes ==
    {<<"M", " ">>, <<"A", " ">>, <<" ", "M">>, <<"M", "M">>, <<"A", "M">>, <<"?", "?">>}

\* every porcelain output of at most MaxStatusLines lines about the file a
RECURSIVE StatusLinesJoined(_)
StatusLinesJoined(n) ==
    IF n = 0 THEN {<<>>}
    ELSE {code \o <<" ", "a", "\n">> \o rest : code \in StatusCodes,
                                               rest \in StatusLinesJoined(n - 1)}

PorcelainOutputs == UNION {StatusLinesJoined(n) : n \in 0..MaxStatusLines}

\* exec_git_command of the first git-command module: stdout.trim()
exec_git_command(stdout) == TrimChars(stdout)

\* git-status.ts
is_untracked_file(line) == StartsWith(line, <<"?", "?">>)
is_unstaged_file(line) == Len(line) >= 2 /\ line[2] # " "

has_unstaged_files(status_output) ==
    LET split == SplitLines(status_output)
        lines == SelectSeq([i \in DOMAIN split |-> TrimEndChars(split[i])], NonEmptyLine)
    IN  \/ \E i \in DOMAIN lines : is_untracked_file(lines[i])
        \/ \E i \in DOMAIN lines : is_unstaged_file(lines[i])

\* ensure_staging_state of git-automation on what `git status --porcelain` printed
CallEnsureStagingState ==
    /\ program = "calls" /\ pc = "call"
    /\ \E stdout \in PorcelainOutputs :
         log' = << Called("ensure_staging_state", <<stdout>>,
                          staging_is_incomplete(stdout), <<>>) >>
    /\ pc' = "called"
    /\ UNCHANGED <<program, tty, error, exit_code, head, config, operations,
                   current_branch, pr_info, done, printed, running>>
    /\ UNCHANGED retry_vars

\* check_unstaged: git_command.status(), then has_unstaged_files
CallCheckUnstaged ==
    /\ program = "calls" /\ pc = "call"
    /\ \E stdout \in PorcelainOutputs :
         log' = << CalledReturning("check_unstaged", <<stdout>>,
                       [has_unstaged |-> has_unstaged_files(exec_git_command(stdout))]) >>
    /\ pc' = "called"
    /\ UNCHANGED <<program, tty, error, exit_code, head, config, operations,
                   current_branch, pr_info, done, printed, running>>
    /\ UNCHANGED retry_vars

NextCalls ==
    \/ CallRunCommand
    \/ CallEnsureStagingState
    \/ CallCheckUnstaged
    \/ CallParseAutomationConfig
    \/ CallSanitizeBranchSlug

SpecCalls == InitCalls /\ [][NextCalls]_vars

-----------------------------------------------------------------------------
(* The two pull-request polls on their own: watch_pull_request_checks and  *)
(* collect_report_output called once on a branch, attempt by attempt       *)

\* `gh pr checks <branch>`: every answer of the two polls
PolledChecksResults == WatchChecksResults \cup ReportChecksResults

InitPolls ==
    /\ program = "polls"
    /\ tty = FALSE
    /\ pc = "call"
    /\ error = ""
    /\ exit_code = -1
    /\ head = Br42Fix
    /\ config = NoConfig
    /\ operations = NoOperations
    /\ current_branch = Br42Fix
    /\ pr_info = NoPrInfo
    /\ log = <<>>
    /\ done = {}
    /\ printed = {}
    /\ running = {}
    /\ RetryIdle

\* watch_pull_request_checks(branch): the first wait_for, then
\* retry_with_status(create_watch_retry_config(branch)) starts
CallWatchPullRequestChecks ==
    /\ program = "polls" /\ pc = "call"
    /\ retry_with_status_begin(CHECK_LABEL, None)
    /\ pc' = "watch"
    /\ UNCHANGED <<program, tty, error, exit_code, head, config, operations, current_branch,
                   pr_info, log, done, printed, running>>

\* collect_report_output(branch): retry_with_status(build_report_retry_config(branch))
CallCollectReportOutput ==
    /\ program = "polls" /\ pc = "call"
    /\ retry_with_status_begin(REPORT_LABEL, None)
    /\ pc' = "report"
    /\ UNCHANGED <<program, tty, error, exit_code, head, config, operations, current_branch,
                   pr_info, log, done, printed, running>>

PollsWatchAttempt ==
    /\ program = "polls" /\ pc = "watch"
    /\ PollAttempt(TRUE, WatchResults, PolledChecksResults)

PollsReportAttempt ==
    /\ program = "polls" /\ pc = "report"
    /\ PollAttempt(FALSE, {SpawnError}, PolledChecksResults)

PollsRetryDelay ==
    /\ program = "polls"
    /\ RetryDelayElapsed

NextPolls ==
    \/ CallWatchPullRequestChecks
    \/ CallCollectReportOutput
    \/ PollsWatchAttempt
    \/ PollsReportAttempt
    \/ PollsRetryDelay

SpecPolls == InitPolls /\ [][NextPolls]_vars

-----------------------------------------------------------------------------
(* git-ops/prompt-utilities: prompt_operations_once on its own.  The three *)
(* callbacks of prompt_entries.map are async functions: each runs up to    *)
(* its first await, the call of prompt.question, before Promise.all is     *)
(* reached.  `log` is the history of the questions put to the interface    *)
(* and of the answers it handed back; `done` holds the settled operations. *)

\* answers handed back by the interface, over all questions
MaxOperationAnswers == 4

\* Object.entries(OPERATION_PROMPT_CONFIGS)
OPERATION_PROMPT_CONFIGS == <<"commit", "push", "pr">>

\* what the user may type at an operation's question
OperationAnswers == {<<"y">>, <<"N", "\n">>, <<>>}

\* prompt.question(question) called for the operation
Asked(operation) ==
    [cmd |-> "prompt.question", arg |-> operation, exit |-> "asked", output |-> <<>>]
\* the promise of the operation's question resolved with the typed line
Resolved(operation, raw_answer) ==
    [cmd |-> "prompt.question", arg |-> operation, exit |-> "resolved",
     output |-> <<[raw_answer |-> raw_answer]>>]

QuestionsAsked(operation) ==
    Cardinality({i \in DOMAIN log : log[i] = Asked(operation)})
QuestionsResolved(operation) ==
    Cardinality({i \in DOMAIN log : log[i].arg = operation /\ log[i].exit = "resolved"})

\* the operations whose question is waiting for its answer
OutstandingQuestions ==
    {operation \in {"commit", "push", "pr"} :
        QuestionsAsked(operation) > QuestionsResolved(operation)}

InitOperations ==
    /\ program = "operations"
    /\ tty = TRUE
    /\ pc = "call"
    /\ error = ""
    /\ exit_code = -1
    /\ head = <<>>
    /\ config = NoConfig
    /\ operations = NoOperations
    /\ current_branch = <<>>
    /\ pr_info = NoPrInfo
    /\ log = <<>>
    /\ done = {}
    /\ printed = {}
    /\ running = {}
    /\ RetryIdle

\* prompt_entries.map(async ...): every callback up to its first await
map_prompt_entries(entries) == [i \in DOMAIN entries |-> Asked(entries[i])]

\* prompt_operations_once up to `await Promise.all(...)`
PromptOperationsOnce ==
    /\ program = "operations" /\ pc = "call"
    /\ log' = map_prompt_entries(OPERATION_PROMPT_CONFIGS)
    /\ pc' = "await_all"
    /\ UNCHANGED <<program, tty, error, exit_code, head, config, operations, current_branch,
                   pr_info, done, printed, running>>
    /\ UNCHANGED retry_vars

\* the interface hands a typed line to one waiting question; that callback's
\* ask_yes_no_binary goes on: it returns, or prints 'Reply y / n.' and asks again
QuestionResolves ==
    /\ program = "operations" /\ pc = "await_all"
    /\ Cardinality({i \in DOMAIN log : log[i].exit = "resolved"}) < MaxOperationAnswers
    /\ \E operation \in OutstandingQuestions, raw_answer \in OperationAnswers :
         LET normalized == normalize_yes_no_answer(raw_answer)
         IN  IF normalized # None
             THEN /\ log' = Append(log, Resolved(operation, raw_answer))
                  /\ operations' = [operations EXCEPT ![operation] = normalized[1] = <<"y">>]
                  /\ done' = done \cup {operation}
                  /\ UNCHANGED printed
             ELSE /\ log' = log \o <<Resolved(operation, raw_answer), Asked(operation)>>
                  /\ printed' = printed \cup {"reply_y_n"}
                  /\ UNCHANGED <<operations, done>>
    /\ UNCHANGED <<program, tty, pc, error, exit_code, head, config, current_branch,
                   pr_info, running>>
    /\ UNCHANGED retry_vars

\* every callback has returned: Promise.all resolves, Object.fromEntries
PromiseAllResolves ==
    /\ program = "operations" /\ pc = "await_all"
    /\ done = {"commit", "push", "pr"}
    /\ pc' = "returned"
    /\ UNCHANGED <<program, tty, error, exit_code, head, config, operations, current_branch,
                   pr_info, log, done, printed, running>>
    /\ UNCHANGED retry_vars

NextOperations ==
    \/ PromptOperationsOnce
    \/ QuestionResolves
    \/ PromiseAllResolves

SpecOperations == InitOperations /\ [][NextOperations]_vars

-----------------------------------------------------------------------------
(* wait_and_check_status with its countdown timers, one event at a time    *)

WAIT_AFTER_PR_SECONDS == 5
WAIT_BEFORE_RETRY_SECONDS == 5
MaxLateTicks == 1

\* one event of the event loop in the history
Event(name, kind, value) == [cmd |-> name, arg |-> <<>>, exit |-> kind, output |-> value]

\* the events since wait_for_seconds was last called
SinceWaitCalled ==
    LET called == {i \in DOMAIN log : log[i].cmd = "wait_for_seconds" /\ log[i].exit = "called"}
        last == CHOOSE i \in called : \A j \in called : j <= i
    IN  IF called = {} THEN {} ELSE {j \in DOMAIN log : j > last}

\* callbacks of the running interval since it was created
IntervalTicks == Cardinality({j \in SinceWaitCalled : log[j].exit = "tick"})

\* the seconds the wait in progress was called with
WaitSeconds(at) ==
    IF at \in {"wait_after_pr", "sleep_after_pr"} THEN WAIT_AFTER_PR_SECONDS
    ELSE WAIT_BEFORE_RETRY_SECONDS

Sleeping == pc \in {"sleep_after_pr", "sleep_before_retry"}

\* a clearInterval that leaves the timer armed
clear_interval_forgotten(timers, interval_id) == timers

\* clearInterval(interval_id)
clear_interval(timers, interval_id) == timers \ {interval_id}

InitCountdown ==
    /\ program = "countdown"
    /\ tty \in BOOLEAN
    /\ pc = "wait_after_pr"
    /\ error = ""
    /\ exit_code = -1
    /\ head = <<>>
    /\ config = NoConfig
    /\ operations = NoOperations
    /\ current_branch = <<>>
    /\ pr_info = NoPrInfo
    /\ log = <<>>
    /\ done = {}
    /\ printed = {}
    /\ running = {}
    /\ RetryIdle

\* wait_for_seconds up to its await: create_countdown_interval on a terminal
\* (first display update, setInterval), then setTimeout
WaitForSecondsCalled ==
    /\ program = "countdown" /\ pc \in {"wait_after_pr", "wait_before_retry"}
    /\ IF tty
       THEN /\ log' = log \o << Event("wait_for_seconds", "called", <<>>),
                                Event("stdout.write", "countdown", <<WaitSeconds(pc)>>) >>
            /\ running' = running \cup {"interval", "timeout"}
       ELSE /\ log' = Append(log, Event("wait_for_seconds", "called", <<>>))
            /\ running' = running \cup {"timeout"}
    /\ pc' = IF pc = "wait_after_pr" THEN "sleep_after_pr" ELSE "sleep_before_retry"
    /\ UNCHANGED <<program, tty, error, exit_code, head, config, operations,
                   current_branch, pr_info, done, printed>>
    /\ UNCHANGED retry_vars

\* the setInterval callback: the k-th tick is due k seconds after the call, so
\* at most `seconds` ticks come before the timeout that is due at `seconds`
IntervalTick ==
    /\ program = "countdown" /\ "interval" \in running
    /\ IntervalTicks < WaitSeconds(pc) + (IF "timeout" \in running THEN 0 ELSE MaxLateTicks)
    /\ LET remaining_seconds == WaitSeconds(pc) - (IntervalTicks + 1)
       IN  log' = Append(log, Event("stdout.write", "tick",
                                    IF remaining_seconds > 0 THEN <<remaining_seconds>>
                                    ELSE <<>>))
    /\ UNCHANGED <<program, tty, pc, error, exit_code, head, config, operations,
                   current_branch, pr_info, done, printed, running>>
    /\ UNCHANGED retry_vars

\* the setTimeout callback resolves the promise; the rest of wait_for_seconds
\* (clearInterval, clear_countdown_line) and its return run as microtasks
\* before any other timer callback
TimeoutFires ==
    /\ program = "countdown" /\ Sleeping /\ "timeout" \in running
    /\ running' = clear_interval(running \ {"timeout"}, "interval")
    /\ log' = log \o (IF tty THEN <<Event("stdout.write", "cleared", <<>>)>> ELSE <<>>)
                  \o <<Event("wait_for_seconds", "returned", <<>>)>>
    /\ pc' = "check_pr_status"
    /\ UNCHANGED <<program, tty, error, exit_code, head, config, operations,
                   current_branch, pr_info, done, printed>>
    /\ UNCHANGED retry_vars

\* the `gh pr checks` polls started by wait_for_status_available
CountdownPolls ==
    Cardinality({i \in DOMAIN log : log[i].cmd = "gh pr checks" /\ log[i].exit = "spawned"})

\* check_pr_status starts `gh pr checks <branch>` with exec
PrChecksSpawned ==
    /\ program = "countdown" /\ pc = "check_pr_status"
    /\ CountdownPolls < MaxStatusPolls
    /\ log' = Append(log, Event("gh pr checks", "spawned", <<>>))
    /\ running' = running \cup {"gh pr checks"}
    /\ pc' = "pr_checks"
    /\ UNCHANGED <<program, tty, error, exit_code, head, config, operations,
                   current_branch, pr_info, done, printed>>
    /\ UNCHANGED retry_vars

\* the child closed: wait_for_status_available returns or waits again
PrChecksClosed ==
    /\ program = "countdown" /\ pc = "pr_checks"
    /\ \E checks \in WatchChecksResults :
         LET output == IF exec_rejects(checks) THEN <<>> ELSE checks.stdout
         IN  pc' = IF output # <<>> /\ ~is_no_checks_reported_message(output)
                   THEN "pr_checks_watch" ELSE "wait_before_retry"
    /\ log' = Append(log, Event("gh pr checks", "closed", <<>>))
    /\ running' = running \ {"gh pr checks"}
    /\ UNCHANGED <<program, tty, error, exit_code, head, config, operations,
                   current_branch, pr_info, done, printed>>
    /\ UNCHANGED retry_vars

\* pr_checks_watch spawns `gh pr checks <branch> --watch`
PrChecksWatchSpawned ==
    /\ program = "countdown" /\ pc = "pr_checks_watch"
    /\ log' = Append(log, Event("gh pr checks --watch", "spawned", <<>>))
    /\ running' = running \cup {"gh pr checks --watch"}
    /\ pc' = "watching"
    /\ UNCHANGED <<program, tty, error, exit_code, head, config, operations,
                   current_branch, pr_info, done, printed>>
    /\ UNCHANGED retry_vars

\* the watch child closed
PrChecksWatchClosed ==
    /\ program = "countdown" /\ pc = "watching"
    /\ log' = Append(log, Event("gh pr checks --watch", "closed", <<>>))
    /\ running' = running \ {"gh pr checks --watch"}
    /\ pc' = "watched"
    /\ UNCHANGED <<program, tty, error, exit_code, head, config, operations,
                   current_branch, pr_info, done, printed>>
    /\ UNCHANGED retry_vars

NextCountdown ==
    \/ WaitForSecondsCalled
    \/ IntervalTick
    \/ TimeoutFires
    \/ PrChecksSpawned
    \/ PrChecksClosed
    \/ PrChecksWatchSpawned
    \/ PrChecksWatchClosed

SpecCountdown == InitCountdown /\ [][NextCountdown]_vars

-----------------------------------------------------------------------------
(* Properties of whole runs                                                *)

Mutations == {"git checkout -b", "git commit", "git push"}

RequiredValidations ==
    IF program = "automation" THEN {"staging", "issue_parsed", "issue_matched"}
    ELSE {"staging", "issue_parsed"}

\* C1: every repository mutation (branch creation, commit, push) in the
\* history was made after the staging validation and the issue validation
\* (line parsed, issue checked with ensure_issue_matches) had succeeded.
\* Violated: execute_setup aligns the branch before ensure_issue_matches.
C1_MutationsAfterValidation ==
    \A i \in DOMAIN log : log[i].cmd \in Mutations => RequiredValidations \subseteq done

\* the steps of execute_workflow / execute_workflow_steps, in their order
StepRank(cmd) ==
    CASE cmd = "git commit" -> 1
      [] cmd = "git push" -> 2
      [] cmd = "gh pr create" -> 3
      [] cmd \in {"gh pr checks --watch", "gh pr checks"} -> 4
      [] OTHER -> 0

IsStep(entry) ==
    /\ StepRank(entry.cmd) > 0
    /\ \/ program = "automation"
       \/ entry.cmd # "gh pr checks"

StepsInOrder ==
    \A i, j \in DOMAIN log :
        (i < j /\ IsStep(log[i]) /\ IsStep(log[j])) => StepRank(log[i].cmd) <= StepRank(log[j].cmd)

StepsNeverOverlap ==
    /\ Cardinality(running) <= 1
    /\ \A i \in DOMAIN log : log[i].exit = "running" => i = Len(log)

\* a commit or push whose process did not exit with code 0
StepFailed(entry) ==
    /\ entry.cmd \in {"git commit", "git push"}
    /\ entry.exit \in {"spawn_error", "non_zero", "signal"}

FailureStopsTheRun ==
    \A i, j \in DOMAIN log : (StepFailed(log[i]) /\ i < j) => ~IsStep(log[j])

\* C2: the steps never overlap, run in the order commit, push, PR flow, each
\* starting after the previous step's process has exited, and after a failed
\* step no later step is started.  Violated: a `git commit` killed by a
\* signal is reported with status 0 and the push follows.
C2_StepsSequentialAndStopOnFailure ==
    /\ StepsNeverOverlap
    /\ StepsInOrder
    /\ FailureStopsTheRun

\* the output matches neither 'no checks reported' nor pending/in progress/queued
NonBenign(output) ==
    /\ ~IncludesPhrase(LowerText(output), <<"no", "checks", "reported">>)
    /\ ~IncludesPhrase(LowerText(output), <<"pending">>)
    /\ ~IncludesPhrase(LowerText(output), <<"in", "progress">>)
    /\ ~IncludesPhrase(LowerText(output), <<"queued">>)

NonBenignFailure(call) ==
    /\ call.probe # None
    /\ call.probe[1].status # 0
    /\ NonBenign(call.probe[1].output)

\* C6: in the watch poll and the report poll, an attempt whose command exits
\* non-zero with an output matching no benign pattern fails the poll at that
\* attempt: it is the last invocation of execute and no delay follows it.
C6_NonBenignFailsAtOnce ==
    \A i \in DOMAIN calls :
        (program = "automation" /\ NonBenignFailure(calls[i])) =>
            /\ i = Len(calls)
            /\ rpc = "threw"
            /\ delays = i - 1
            /\ pc \in {"watch", "report", "exited"}
            /\ pc = "exited" => exit_code = 1

C6_Witness ==
    /\ pc = "report"
    /\ rpc = "threw"
    /\ Len(calls) = 1
    /\ NonBenignFailure(calls[1])

SaysPrAlreadyExists(output) ==
    /\ IncludesPhrase(LowerText(output), <<"pull", "request">>)
    /\ IncludesPhrase(LowerText(output), <<"already", "exists">>)

PollingStarted == \E j \in DOMAIN log : log[j].cmd = "gh pr checks --watch"

\* C8: when `gh pr create` exits non-zero and its combined output contains
\* both 'pull request' and 'already exists' (in any case) the run goes on to
\* the check polling; any other non-zero exit ends the run with the
\* 'Failed to create PR.' error and no polling.
C8_ExistingPrReused ==
    \A i \in DOMAIN log :
        (program = "automation" /\ log[i].cmd = "gh pr create" /\ log[i].exit = "non_zero") =>
            IF SaysPrAlreadyExists(log[i].output)
            THEN /\ error # "pr_create"
                 /\ "existing_pr_reused" \in printed
                 /\ i = Len(log) => pc \in {"watch_wait", "watch"} /\ exit_code = -1
            ELSE /\ i = Len(log)
                 /\ pc = "exited" /\ error = "pr_create" /\ exit_code = 1
                 /\ ~PollingStarted

C8_Witness ==
    /\ program = "automation"
    /\ \E i \in DOMAIN log :
           /\ log[i].cmd = "gh pr create" /\ log[i].exit = "non_zero"
           /\ SaysPrAlreadyExists(log[i].output)
    /\ PollingStarted

\* C9: on main/master the decision always asks for the pull, and every branch
\* creation comes after a pull that succeeded.  Violated: check_and_create_branch
\* of the workflow script creates the branch without any pull.
C9_PullBeforeBranchCreation ==
    /\ \A on \in {MainBranch, MasterBranch} :
           resolve_branch_alignment(config.target_branch, on).should_pull_main
    /\ \A i \in DOMAIN log :
           log[i].cmd = "git checkout -b" =>
               \E j \in 1..(i - 1) : log[j].cmd = "git pull" /\ log[j].exit = "zero"

\* the alignment step has read the current branch and has run
AlignmentRan ==
    /\ config # NoConfig
    /\ pc \notin {"align_working_branch", "check_and_create_branch"}
    /\ \E i \in DOMAIN log :
           /\ log[i].cmd \in {"git branch --show-current", "git rev-parse"}
           /\ log[i].exit = "zero"

\* the branch carries another issue's number: /^(\d+)-/ with a different number
ForeignIssueBranch(branch, issue_number) ==
    /\ branch \notin {MainBranch, MasterBranch}
    /\ LeadingDigits(branch) # <<>>
    /\ Len(branch) > Len(LeadingDigits(branch))
    /\ branch[Len(LeadingDigits(branch)) + 1] = "-"
    /\ LeadingDigits(branch) # issue_number

\* C10: when the current branch is another issue's branch, alignment ends the
\* run with the branch-mismatch error before any pull, branch creation,
\* checkout, commit, push or PR creation.
C10_ForeignBranchRefused ==
    (AlignmentRan /\ ForeignIssueBranch(head, config.issue_number)) =>
        /\ error = "branch_mismatch"
        /\ exit_code = 1
        /\ \A i \in DOMAIN log :
               log[i].cmd \notin {"git pull", "git checkout -b", "git checkout",
                                  "git commit", "git push", "gh pr create"}

C10_Witness ==
    /\ program = "automation"
    /\ head = Br7Old
    /\ config.issue_number = <<"4", "2">>
    /\ AlignmentRan
    /\ error = "branch_mismatch"

\* the branch is neither main/master, nor the canonical branch, nor the
\* branch of another issue
OffNameBranch(branch) ==
    /\ branch \notin {MainBranch, MasterBranch}
    /\ branch # config.target_branch
    /\ ~ForeignIssueBranch(branch, config.issue_number)

\* C11: on a branch that is not main/master, differs from the canonical branch
\* and is not another issue's branch, alignment prints the warning and goes on:
\* the run is not aborted by alignment, no pull, checkout or branch creation is
\* issued, and the branch handed to the later steps is the current branch.
\* Violated: check_and_create_branch of the workflow script exits with the
\* branch-mismatch error for every branch other than main and the target.
C11_OffNameBranchContinues ==
    (AlignmentRan /\ OffNameBranch(head)) =>
        /\ "branch_name_differs" \in printed
        /\ "branch_aligned" \in done
        /\ error # "branch_mismatch"
        /\ current_branch = head
        /\ \A i \in DOMAIN log :
               log[i].cmd \notin {"git pull", "git checkout -b", "git checkout"}

\* the step taken issues `git checkout -b`
CreatesBranch ==
    \E i \in DOMAIN log' : i \notin DOMAIN log /\ log'[i].cmd = "git checkout -b"

\* the Branch Aligner's decision for a branch other than main and master
OffMainDecisionKeepsBranch(target_branch) ==
    \A b \in Branches \ {MainBranch, MasterBranch} :
        /\ ~resolve_branch_alignment(target_branch, b).should_create_branch
        /\ ~resolve_branch_alignment(target_branch, b).should_pull_main

\* C12: a branch is created only while the current branch is main or master;
\* for every other current branch, the canonical branch itself included, the
\* decision has should_create_branch = false and should_pull_main = false.
C12_BranchCreatedOnlyOnMain ==
    [][/\ config' # NoConfig => OffMainDecisionKeepsBranch(config'.target_branch)
       /\ CreatesBranch => head \in {MainBranch, MasterBranch}]_vars

\* alignment has run on the canonical branch itself and has created nothing
C12_Witness ==
    /\ program = "automation"
    /\ AlignmentRan
    /\ head = config.target_branch
    /\ "branch_aligned" \in done
    /\ \A i \in DOMAIN log : log[i].cmd \notin {"git pull", "git checkout -b"}

Br101FixLoginBug ==
    <<"1", "0", "1", "-", "f", "i", "x", "-", "l", "o", "g", "i", "n", "-", "b", "u", "g">>

\* the command went through the hosting CLI
IsHostingCli(cmd) ==
    cmd \in {"gh --version", "gh issue view", "gh pr create", "gh pr checks --watch",
             "gh pr checks", "gh pr view"}

\* a git-automation run from main for 'Fix login bug #101' in which every
\* command exited with 0, commit and push were confirmed, the PR was not, and
\* main has returned or the run has exited
LoginBugRunEnded ==
    /\ program = "automation" /\ tty
    /\ pc = "exited"
    /\ config.issue_title = TitleLoginBug
    /\ config.issue_number = <<"1", "0", "1">>
    /\ operations = [commit |-> TRUE, push |-> TRUE, pr |-> FALSE]
    /\ \E i \in DOMAIN log : log[i].cmd = "git pull" /\ log[i].arg = MainBranch
    /\ \A i \in DOMAIN log : log[i].exit = "zero"

\* C13: with everything staged, issue input "Fix login bug #101", current
\* branch main and the user confirming commit and push but not the PR, the run
\* creates 101-fix-login-bug, commits with message "Fix login bug #101",
\* pushes, prints the 'selected steps done' summary, exits 0, and never
\* invokes gh.  Violated: ensure_issue_matches runs `gh --version` and
\* `gh issue view 101` in every run.
C13_EndToEndWithoutHostingCli ==
    LoginBugRunEnded =>
        /\ exit_code = 0
        /\ "selected_steps_done" \in printed
        /\ \E i \in DOMAIN log :
               log[i].cmd = "git checkout -b" /\ log[i].arg = Br101FixLoginBug
        /\ \E i \in DOMAIN log :
               log[i].cmd = "git commit" /\ log[i].arg = LineLoginBug
        /\ \E i \in DOMAIN log :
               log[i].cmd = "git push" /\ log[i].arg = Br101FixLoginBug
        /\ \A i \in DOMAIN log : ~IsHostingCli(log[i].cmd)

\* the answer that ends the question is 'n' / is 'y'
Declines(answers) == normalize_yes_no_answer(answers[Len(answers)]) = Some(<<"n">>)
Accepts(answers) == normalize_yes_no_answer(answers[Len(answers)]) = Some(<<"y">>)

\* git-automation asks a load-bearing question: package.json is not staged, or
\* it is staged and its diff has no version line
AutomationAsks(files, diff) ==
    /\ ~run_command_throws(files, FALSE)
    /\ \/ ~has_package_json(files)
       \/ /\ ~run_command_throws(diff, FALSE)
          /\ ~has_version_change(build_command_result(diff).stdout)

\* the workflow script is answered 'n' at 'unstaged files found', or at one of
\* the two package.json questions
WorkflowDeclined(status, diff, for_unstaged, for_package) ==
    /\ ~exec_rejects(status)
    /\ \/ staging_is_incomplete(exec_output(status)) /\ Declines(for_unstaged)
       \/ /\ staging_is_incomplete(exec_output(status)) => Accepts(for_unstaged)
          /\ Declines(for_package)
          /\ \/ ~is_package_json_staged(exec_output(status))
             \/ ~exec_rejects(diff) /\ ~is_version_updated_in_diff(exec_output(diff))

\* no branch is pulled, created or switched, nothing is committed or pushed,
\* no PR is created
NothingMutated ==
    \A i \in DOMAIN log :
        log[i].cmd \notin {"git pull", "git checkout -b", "git checkout", "git commit",
                           "git push", "gh pr create"}

\* C14: an 'n' at a load-bearing confirmation (package.json not staged,
\* version not updated, in the workflow script also unstaged files found) ends
\* the whole run with a non-zero exit: no branch is pulled, created or
\* switched, nothing is committed or pushed and no PR is created.
C14_DeclinedConfirmationEndsRun ==
    /\ (program = "automation" /\ pc = "ensure_package_json_version" /\ tty) =>
           \A files \in StagedFilesResults, diff \in PackageDiffResults,
              answers \in AnswerScripts :
               (AutomationAsks(files, diff) /\ Declines(answers)) =>
                   ensure_package_json_version(files, diff, answers) = Throw("cancelled")
    /\ (program = "workflow" /\ pc = "check_and_confirm_staging" /\ tty) =>
           \A status \in StatusResults, diff \in PackageDiffResults,
              for_unstaged \in AnswerScripts, for_package \in AnswerScripts :
               WorkflowDeclined(status, diff, for_unstaged, for_package) =>
                   check_and_confirm_staging(status, diff, for_unstaged, for_package)
                       = Exit1("cancelled")
    /\ error = "cancelled" =>
           /\ pc = "exited"
           /\ exit_code # 0
           /\ NothingMutated

\* the user has answered 'n' to a package.json question of git-automation
C14_Witness ==
    /\ program = "automation" /\ tty
    /\ error = "cancelled"
    /\ exit_code = 1
    /\ log[Len(log)].cmd \in {"git diff --name-only", "git diff package.json"}

\* what the user answered in one round, read off the accepted answers
AnsweredSelection(for_commit, for_push, for_pr) ==
    [commit |-> Accepts(for_commit), push |-> Accepts(for_push), pr |-> Accepts(for_pr)]

\* a round answered 'n' at 'Proceed?' is discarded, a round answered 'y'
\* returns exactly its three answers
RoundsNeedConfirmation ==
    \A for_commit \in AnswerScripts, for_push \in AnswerScripts, for_pr \in AnswerScripts,
       for_proceed \in AnswerScripts :
        LET round == configure_operations_round(for_commit, for_push, for_pr, for_proceed)
        IN  /\ Declines(for_proceed) => ~round.is_confirmed
            /\ Accepts(for_proceed) =>
                   /\ round.is_confirmed
                   /\ round.operations = AnsweredSelection(for_commit, for_push, for_pr)

\* commit, push and PR creation have run only for a confirmed selection that
\* holds them
ExecutedOnlyWhenSelected ==
    program = "automation" =>
        /\ pc \in {"ensure_staging_state", "ensure_package_json_version", "prepare_config",
                   "align_working_branch", "ensure_issue_matches", "select_operations"}
               => operations = NoOperations
        /\ \A i \in DOMAIN log :
               /\ log[i].cmd = "git commit" => operations.commit /\ "run_summary" \in printed
               /\ log[i].cmd = "git push" => operations.push /\ "run_summary" \in printed
               /\ log[i].cmd = "gh pr create" => operations.pr /\ "run_summary" \in printed

\* the selection is taken by the confirmed round and by nothing else
SelectionFrozen ==
    program = "automation" =>
        /\ operations' # operations => pc = "select_operations" /\ pc' = "run_commit"
        /\ (pc = "select_operations" /\ pc' = "select_operations") =>
               UNCHANGED <<operations, log, printed>>
        /\ (pc = "select_operations" /\ pc' = "run_commit") =>
               \E for_commit \in AnswerScripts, for_push \in AnswerScripts,
                  for_pr \in AnswerScripts :
                   operations' = AnsweredSelection(for_commit, for_push, for_pr)

Operations == {"commit", "push", "pr"}

\* the commands an operation runs
OperationCommands(operation) ==
    IF operation = "pr" THEN {"gh pr create"} ELSE {"git " \o operation}

NeverRan(operation) == \A i \in DOMAIN log : log[i].cmd \notin OperationCommands(operation)

\* the gate of the workflow script follows the answer, and every one of the
\* eight selections can be confirmed in git-automation
GatesFollowAnswers ==
    /\ (program = "workflow" /\ tty /\ pc \in {"commit_changes", "push_changes", "create_pr"}) =>
           \A answers \in AnswerScripts, operation \in Operations :
               LET gate == execute_with_confirmation(answers, SKIP_MESSAGE(operation))
               IN  /\ Declines(answers) =>
                          ~gate.should_execute /\ gate.info = {SKIP_MESSAGE(operation)}
                   /\ Accepts(answers) => gate.should_execute
    /\ (program = "automation" /\ pc = "select_operations") =>
           \A selection \in OperationSelections :
               \E for_commit \in AnswerScripts, for_push \in AnswerScripts,
                  for_pr \in AnswerScripts :
                   configure_operations_round(for_commit, for_push, for_pr, <<<<"y">>>>)
                       = [is_confirmed |-> TRUE, operations |-> selection]

\* a step that was declined or not selected has not run and its skip is on
\* the console: the skip message of the workflow script, the switched-off
\* line of git-automation's operation summary
SkippedStepsLeftOut ==
    \A operation \in Operations :
        /\ (program = "automation" /\ "run_summary" \in printed /\ ~operations[operation]) =>
               /\ NeverRan(operation)
               /\ "config_" \o operation \o "_off" \in printed
        /\ (program = "workflow" /\ SKIP_MESSAGE(operation) \in printed) =>
               /\ NeverRan(operation)
               /\ ~operations[operation]

\* a skipped step raises nothing and hands over to the step behind it
SkipGoesOn ==
    /\ (program = "automation" /\ pc = "run_commit" /\ ~operations.commit) =>
           pc' = "run_push" /\ error' = "" /\ log' = log
    /\ (program = "automation" /\ pc = "run_push" /\ ~operations.push) =>
           pc' = "run_pr_flow" /\ error' = "" /\ log' = log
    /\ (program = "automation" /\ pc = "run_pr_flow" /\ ~operations.pr) =>
           pc' = "exited" /\ exit_code' = 0 /\ log' = log
    /\ (program = "workflow" /\ pc = "commit_changes" /\ ~operations'.commit) =>
           pc' = "push_changes" /\ error' = "" /\ log' = log
               /\ SKIP_MESSAGE("commit") \in printed'
    /\ (program = "workflow" /\ pc = "push_changes" /\ ~operations'.push) =>
           pc' = "create_pr" /\ error' = "" /\ log' = log
               /\ SKIP_MESSAGE("push") \in printed'
    /\ (program = "workflow" /\ pc = "create_pr" /\ ~operations'.pr) =>
           pc' = "exited" /\ exit_code' = 0 /\ log' = log
               /\ SKIP_MESSAGE("pr") \in printed'

\* C16: for each of commit, push and PR, a step that is declined or not
\* selected does not run its action, its skip is logged, no error is raised and
\* the steps behind it are still evaluated; the three choices are independent,
\* so each of the eight combinations can be chosen and run.
C16_SkippedStepsAreLoggedAndHarmless ==
    /\ []GatesFollowAnswers
    /\ []SkippedStepsLeftOut
    /\ [][SkipGoesOn]_vars

\* push without commit, then the PR step declined: the workflow script ended
\* normally with only the push executed
C16_Witness ==
    /\ program = "workflow"
    /\ pc = "exited" /\ exit_code = 0
    /\ operations = [commit |-> FALSE, push |-> TRUE, pr |-> FALSE]
    /\ {SKIP_MESSAGE("commit"), SKIP_MESSAGE("pr")} \subseteq printed
    /\ \E i \in DOMAIN log : log[i].cmd = "git push" /\ log[i].exit = "zero"
    /\ NeverRan("commit") /\ NeverRan("pr")

\* what a run prints only after a yes/no answer
AnswerTraces ==
    {SKIP_MESSAGE(operation) : operation \in Operations}
        \cup {"unstaged_accepted", "run_summary"}

\* C17: without an interactive terminal no confirmation returns an answer the
\* user never gave: nothing is cancelled, accepted, skipped or selected, and a
\* run that reaches a confirmation ends with the interactive-input-required
\* error.  Violated: with_prompt of the workflow script returns the fallback
\* `false`, so a load-bearing confirmation ends the run as 'Operation
\* cancelled' and confirm_commit, confirm_push and confirm_pr answer 'no'.
C17_GatesNeverDefault ==
    (~tty /\ program \in {"automation", "workflow"}) =>
        /\ error # "cancelled"
        /\ printed \cap AnswerTraces = {}
        /\ operations = NoOperations

\* piped input that holds a well-formed issue line behind an optional sentinel
WellFormedPipedInputs ==
    {piped_input \in PipedInputs :
        /\ read_piped_issue_line(piped_input) # None
        /\ parse_automation_config(read_piped_issue_line(piped_input)[1]).ok}

\* C18: when stdin is not a terminal, git-automation takes the issue line from
\* the piped input (behind an optional '@git-automation.md' line) and goes on
\* to branch alignment; the interactive-input-required error is kept for runs
\* that have neither a terminal nor piped input.  Violated:
\* ensure_package_json_version asks for the prompt interface before the issue
\* line is read, so every run without a terminal ends with that error.
C18_PipedInputReplacesPrompt ==
    (program = "automation" /\ ~tty /\ WellFormedPipedInputs # {}) =>
        /\ error # "tty_required"
        /\ (pc = "exited" /\ "staging" \in done /\ error \notin {"command", "cancelled"}) =>
               "issue_parsed" \in done

\* the answers typed so far, and an answer trimmed and lower-cased
TypedAnswers == [i \in DOMAIN log |-> log[i].arg]
Lowered(raw_answer) == ToLowerCase(TrimChars(raw_answer))
IsYesOrNo(raw_answer) == Lowered(raw_answer) \in {<<"y">>, <<"n">>}

\* C19: ask_yes_no and ask_yes_no_binary return only on an answer that,
\* trimmed and lower-cased, is exactly 'y' or 'n', and return true iff it is
\* 'y'; every other answer (the empty one and 'yes' included) gets the same
\* question asked again, however often.
C19_YesNoAsksUntilAnswered ==
    program = "prompt" =>
        /\ \A i \in 1..(Len(log) - 1) : ~IsYesOrNo(TypedAnswers[i])
        /\ pc \in {"ask_yes_no_binary", "ask_yes_no"} =>
               /\ \A i \in DOMAIN log : ~IsYesOrNo(TypedAnswers[i])
               /\ log # <<>> => "reply_y_n" \in printed
        /\ pc \in {"returned_true", "returned_false"} =>
               /\ log # <<>>
               /\ IsYesOrNo(TypedAnswers[Len(log)])
               /\ pc = "returned_true" <=> Lowered(TypedAnswers[Len(log)]) = <<"y">>
               /\ ask_yes_no_binary(TypedAnswers) = (pc = "returned_true")

\* an empty answer and 'yes' were both asked again, then 'N' returned false
C19_Witness ==
    /\ program = "prompt"
    /\ pc = "returned_false"
    /\ Len(log) = 3
    /\ TypedAnswers[1] = <<>>
    /\ TypedAnswers[2] = <<"y", "e", "s">>
    /\ TypedAnswers[3] = <<"N", "\n">>

\* the `gh pr view` calls of the run
PrViews == {i \in DOMAIN log : log[i].cmd = "gh pr view"}

\* what `gh pr view` printed is not JSON: nothing, or plain words
NotJson(output) == output = <<>> \/ output = << <<"not", "json">> >>

\* the report poll has been started
ReportPolling == pc = "report" \/ label = REPORT_LABEL

\* C20: evaluate_sonar_checks fetches and parses the PR metadata before any
\* report polling; when the JSON cannot be parsed the run fails at once,
\* `gh pr view` is not invoked again and no `gh pr checks` report poll starts.
C20_PrInfoParsedBeforeReportPoll ==
    program = "automation" =>
        /\ Cardinality(PrViews) <= 1
        /\ ReportPolling =>
               \E i \in PrViews :
                   /\ log[i].exit = "zero"
                   /\ ~NotJson(log[i].output)
                   /\ pr_info = parse_pr_info(log[i].output[1])
        /\ \A i \in PrViews :
               (log[i].exit = "zero" /\ NotJson(log[i].output)) =>
                   /\ i = Len(log)
                   /\ pc = "exited" /\ exit_code = 1
                   /\ error = "pr_info_parse"
                   /\ ~ReportPolling

\* the watch poll returned, `gh pr view` printed plain words, the run failed
C20_Witness ==
    /\ program = "automation"
    /\ error = "pr_info_parse"
    /\ log[Len(log)].cmd = "gh pr view"
    /\ log[Len(log)].output = << <<"not", "json">> >>
    /\ \E i \in DOMAIN log : log[i].cmd = "gh pr checks --watch"

\* the report poll handed its output to enforce_sonar_success and the run ended
ReportReturned ==
    /\ program = "automation" /\ pc = "exited"
    /\ label = REPORT_LABEL /\ rpc = "returned"

\* the lines of a check output that name the quality gate
QualityGateLines(text) ==
    {i \in DOMAIN text : \E k \in DOMAIN text[i] : text[i][k] \in {"SonarCloud", "sonarcloud"}}

\* the line carries a pass or success mark
MarkedPassing(line) == \E k \in DOMAIN line : line[k] \in {"pass", "Pass", "success"}

\* the URL written on the line, else the pull request's own URL ('' when absent)
DetailsUrl(line) ==
    IF \E k \in DOMAIN line : line[k] = "https://sonar" THEN "https://sonar"
    ELSE IF pr_info.url = None THEN "" ELSE "https://pr"

C21_WitnessPrUrl ==
    /\ ReportReturned /\ error = "sonar"
    /\ outcome.text = SonarInProgressText
    /\ "Details: https://pr" \in printed

\* the PR record says the branch cannot be merged
Unmergeable(pr_json) ==
    \/ Includes(pr_json, "mergeable:false")
    \/ Includes(pr_json, "mergeStateStatus:dirty")
    \/ Includes(pr_json, "mergeStateStatus:blocked")

\* the PR records `gh pr view` printed during the workflow's status check
ViewedPrRecords ==
    {log[i].output[1] : i \in {j \in DOMAIN log : /\ log[j].cmd = "gh pr view"
                                                  /\ log[j].output # <<>>
                                                  /\ ~parse_pr_info_throws(log[j].output[1])}}

\* C22: has_conflicts is true exactly when mergeable is false or the merge
\* state is dirty or blocked; for every other parsed PR record it is false
\* and the workflow is not terminated by the conflict warning.
C22_ConflictExactlyWhenUnmergeable ==
    program = "workflow" =>
        \A pr_json \in ViewedPrRecords :
            /\ has_conflicts(pr_json) <=> Unmergeable(pr_json)
            /\ ~Unmergeable(pr_json) => error # "conflict"

\* the commands of the commit and push steps
StepCommands == {"git commit", "git push"}

\* C23: the process exits with code 0 only when every selected step completed
\* without error; every failure that reaches the top-level handler and every
\* detected PR conflict ends the process with exit code 1.
C23_ExitCodeTellsSuccess ==
    pc = "exited" =>
        /\ exit_code \in {0, 1}
        /\ error # "" => exit_code = 1
        /\ (program = "workflow" /\ \E pr_json \in ViewedPrRecords : Unmergeable(pr_json))
               => exit_code = 1
        /\ exit_code = 0 =>
               \A i \in DOMAIN log : log[i].cmd \in StepCommands => log[i].exit = "zero"

\* the calls of run_command made so far
RunCommandCalls == {i \in DOMAIN log : log[i].cmd = "run_command"}

\* C24: run_command throws when the child cannot be spawned, whatever the
\* flag; it throws on a non-zero exit only when should_allow_non_zero_exit is
\* false; otherwise it returns the child's literal exit code, so it reports
\* status 0 only when the child exited with code 0.
C24_RunCommandKeepsExitCode ==
    program = "calls" =>
        \A i \in RunCommandCalls :
            LET raw == log[i].arg[1]
                should_allow_non_zero_exit == log[i].arg[2]
                has_thrown == log[i].exit = "threw"
            IN  /\ raw.error => has_thrown
                /\ (~raw.error /\ raw.status \notin {None, Some(0)}) =>
                       (has_thrown <=> ~should_allow_non_zero_exit)
                /\ (~raw.error /\ raw.status = Some(0)) => ~has_thrown
                /\ ~has_thrown =>
                       /\ raw.status # None => log[i].output[1].status = raw.status[1]
                       /\ log[i].output[1].status = 0 => raw.status = Some(0)

\* the countdown display updates written so far
CountdownWrites == {j \in DOMAIN log : log[j].cmd = "stdout.write"}

\* the event is inside a call of wait_for_seconds that has not returned yet
InsideWait(j) ==
    \E i \in 1..(j - 1) :
        /\ log[i].cmd = "wait_for_seconds" /\ log[i].exit = "called"
        /\ \A k \in (i + 1)..(j - 1) : log[k].cmd # "wait_for_seconds"

\* an external command spawned before the event had not closed yet
CommandRunningAt(j) ==
    \E i \in 1..(j - 1) :
        /\ log[i].exit = "spawned"
        /\ \A k \in (i + 1)..(j - 1) : ~(log[k].cmd = log[i].cmd /\ log[k].exit = "closed")

\* C25: the countdown interval is started and cleared within the same wait:
\* every countdown display update is written inside a call of
\* wait_for_seconds that has not returned, none while an external command of
\* the main flow is running, and the timers are armed only during the sleep.
C25_CountdownNeverRaces ==
    program = "countdown" =>
        /\ \A j \in CountdownWrites : InsideWait(j) /\ ~CommandRunningAt(j)
        /\ (running \cap {"interval", "timeout"}) # {} => Sleeping
        /\ "interval" \in running => "timeout" \in running
        /\ (running \cap {"gh pr checks", "gh pr checks --watch"}) # {} =>
               "interval" \notin running

\* on a terminal the countdown ticked during two waits and both commands ran
C25_Witness ==
    /\ program = "countdown" /\ tty /\ pc = "watched"
    /\ Cardinality({j \in CountdownWrites : log[j].exit = "tick"}) >= 2
    /\ Cardinality({i \in DOMAIN log : log[i].exit = "returned"}) = 2

\* the calls of parse_automation_config made so far
ParseCalls == {i \in DOMAIN log : log[i].cmd = "parse_automation_config"}

\* the spellings of the optional prefix
PrefixSpellings == {<<"i", "s", "s", "u", "e", ":">>, <<"I", "S", "S", "U", "E", ":">>}

HasIssuePrefix(line) == Len(line) >= 6 /\ SubSeq(line, 1, 6) \in PrefixSpellings

\* what may stand before the title: nothing, or the prefix and blanks
LeadsIn(lead, line) ==
    \/ lead = <<>> /\ ~HasIssuePrefix(line)
    \/ HasIssuePrefix(lead) /\ \A k \in 7..Len(lead) : lead[k] = " "

\* the readings of a line as '<title> #<n>': a non-empty title without blanks
\* at its ends, a blank, '#', and one or more digits up to the end
IssueForms(line) ==
    {[issue_title |-> SubSeq(line, at[1], at[2] - 2),
      issue_number |-> SubSeq(line, at[2] + 1, Len(line))] :
        at \in {x \in (DOMAIN line) \X (DOMAIN line) :
                   /\ x[1] <= x[2] - 2
                   /\ line[x[2]] = "#" /\ line[x[2] - 1] = " "
                   /\ x[2] < Len(line)
                   /\ \A k \in (x[2] + 1)..Len(line) : line[k] \in Digits
                   /\ line[x[1]] # " " /\ line[x[2] - 2] # " "
                   /\ LeadsIn(SubSeq(line, 1, x[1] - 1), line)}}

\* C26: for every line '<title> #<n>' with a non-empty title and one or more
\* digits, after an optional case-insensitive 'issue:' prefix, parsing
\* succeeds and yields exactly <title> and <n>, also when the title has '#'.
C26_IssueLineParsedAtLastHash ==
    program = "calls" =>
        \A i \in ParseCalls :
            \A form \in IssueForms(log[i].arg[1]) :
                /\ log[i].exit = "returned"
                /\ log[i].output[1].issue_title = form.issue_title
                /\ log[i].output[1].issue_number = form.issue_number

\* 'ISSUE: #a #7' was parsed into the title '#a' and the number '7'
C26_Witness ==
    /\ program = "calls" /\ ParseCalls # {}
    /\ log[1].arg[1] = <<"I", "S", "S", "U", "E", ":", " ", "#", "a", " ", "#", "7">>
    /\ log[1].exit = "returned"
    /\ log[1].output[1].issue_title = <<"#", "a">>
    /\ log[1].output[1].issue_number = <<"7">>

\* the commands that change the repository or the hosting service
WorkflowEffects == {"git pull", "git checkout -b", "git commit", "git push", "gh pr create"}

\* C27: parsing fails with the validation error for every line that has no
\* '#', an empty title before the last '#', or no digit after the last '#',
\* and a run that ended on it made no pull, branch, commit, push or PR.
C27_MalformedLineStopsRun ==
    /\ (program = "automation" /\ pc = "prepare_config") =>
           \A typed \in MistypedLines : ~parse_automation_config(TrimChars(typed)).ok
    /\ error = "issue_format" =>
           /\ pc = "exited" /\ exit_code = 1
           /\ config = NoConfig
           /\ "issue_parsed" \notin done
           /\ \A i \in DOMAIN log : log[i].cmd \notin WorkflowEffects

\* an automation run on a terminal ended on the malformed-line error
C27_Witness ==
    /\ program = "automation" /\ tty
    /\ error = "issue_format" /\ exit_code = 1
    /\ log # <<>>

AsciiLetters == AsciiLowerCase \cup {UpperCaseLetters[i] : i \in 1..26}

\* letters that decompose into an ASCII letter and a combining mark
AccentedLetters == {"e'", "E'"}

\* ^\d+-[a-z0-9-]+$
IsIssueBranchName(branch) ==
    \E k \in 1..(Len(branch) - 2) :
        /\ \A j \in 1..k : branch[j] \in Digits
        /\ branch[k + 1] = "-"
        /\ \A j \in (k + 2)..Len(branch) : branch[j] \in AsciiLowerCase \cup Digits \cup {"-"}

\* the calls of parse_automation_config that returned a config
ParsedConfigs == {log[i].output[1] : i \in {j \in ParseCalls : log[j].exit = "returned"}}

\* the number and the shape of the branch of a parsed issue
NumberAndBranchWellFormed(parsed) ==
    /\ parsed.issue_number # <<>>
    /\ \A k \in DOMAIN parsed.issue_number : parsed.issue_number[k] \in Digits
    /\ parsed.target_branch # <<>>
    /\ IsIssueBranchName(parsed.target_branch)

\* C28 as stated: the branch is '<n>-update' whenever the title contains no
\* ASCII letter or digit.
C28_AsStated ==
    program = "calls" =>
        \A parsed \in ParsedConfigs :
            /\ NumberAndBranchWellFormed(parsed)
            /\ (\A k \in DOMAIN parsed.issue_title :
                    parsed.issue_title[k] \notin AsciiLetters \cup Digits)
                 => parsed.target_branch = parsed.issue_number \o <<"-">> \o UpdateSlug

\* C28: for every successfully parsed issue, issue_number is a non-empty run
\* of ASCII digits and target_branch matches ^\d+-[a-z0-9-]+$; it is exactly
\* '<n>-update' when the title contains no ASCII letter or digit and no
\* accented letter that decomposes into one.
C28_BranchNameWellFormed ==
    program = "calls" =>
        \A parsed \in ParsedConfigs :
            /\ NumberAndBranchWellFormed(parsed)
            /\ (\A k \in DOMAIN parsed.issue_title :
                    parsed.issue_title[k] \notin AsciiLetters \cup Digits \cup AccentedLetters)
                 => parsed.target_branch = parsed.issue_number \o <<"-">> \o UpdateSlug

\* the title '#' of the line '# #7' gave the branch 7-update
C28_Witness ==
    /\ program = "calls" /\ ParseCalls # {}
    /\ log[1].arg[1] = <<"#", " ", "#", "7">>
    /\ log[1].exit = "returned"
    /\ log[1].output[1].target_branch = <<"7", "-">> \o UpdateSlug

\* the calls of sanitize_branch_slug made so far
SlugCalls == {i \in DOMAIN log : log[i].cmd = "sanitize_branch_slug"}

\* C29: sanitize_branch_slug is idempotent: sanitizing the slug of any title
\* returns that slug unchanged.
C29_SlugIdempotent ==
    program = "calls" =>
        \A i \in SlugCalls :
            /\ log[i].exit = "returned"
            /\ sanitize_branch_slug(log[i].output[1].slug) = log[i].output[1].slug

\* the title 'B -e' with an accented e gave the slug b-e
C29_Witness ==
    /\ program = "calls" /\ SlugCalls # {}
    /\ log[1].arg[1] = <<"B", " ", "-", "e'">>
    /\ log[1].output[1].slug = <<"b", "-", "e">>

\* the empty title gave the fallback slug
C29_WitnessFallback ==
    /\ program = "calls" /\ SlugCalls # {}
    /\ log[1].arg[1] = <<>>
    /\ log[1].output[1].slug = UpdateSlug

\* the staging checks made so far
StagingCalls == {i \in DOMAIN log : log[i].cmd \in {"ensure_staging_state", "check_unstaged"}}

\* the status line is untracked or has a non-blank working-tree column
Disqualifying(line) ==
    /\ Len(line) >= 2
    /\ \/ line[1] = "?" /\ line[2] = "?"
       \/ line[2] # " "

\* the check let the status output through
StagingCheckPassed(call) ==
    IF call.cmd = "ensure_staging_state" THEN call.exit = "returned"
    ELSE ~call.output[1].has_unstaged

\* C30: the staging check passes exactly when no line of the status output
\* is untracked and none has a non-blank character in the second column, on
\* any line of the output including the first.
C30_StagingCheckReadsEveryLine ==
    program = "calls" =>
        \A i \in StagingCalls :
            LET lines == SplitLines(log[i].arg[1])
            IN  StagingCheckPassed(log[i]) <=>
                    \A k \in DOMAIN lines : ~Disqualifying(lines[k])

\* the output says that no checks are reported
SaysNoChecksReported(output) ==
    \E i \in DOMAIN output : IsInfix(<<"no", "checks", "reported">>, LowerLine(output[i]))

\* every `gh pr checks` invocation of the poll so far exited non-zero and
\* every attempt classified an output saying 'no checks reported'
ChecksNeverReported ==
    /\ \A i \in DOMAIN log : log[i].exit = "non_zero"
    /\ \A i \in DOMAIN calls :
          /\ calls[i].probe # None
          /\ calls[i].probe[1].status # 0
          /\ SaysNoChecksReported(calls[i].probe[1].output)

\* C31: while every `gh pr checks` invocation exits non-zero saying 'no
\* checks reported', the watch poll and the report poll make attempts 1..5
\* in order, sleep once after each of the first four attempts and not after
\* the fifth, never raise an error, and return with the 'Continuing.'
\* message after the fifth attempt.
C31_UnregisteredChecksDegradeAfterFiveAttempts ==
    (program = "polls" /\ rpc # "idle" /\ ChecksNeverReported) =>
        /\ max_attempts = 5
        /\ rpc # "threw"
        /\ \A i \in DOMAIN calls : calls[i].attempt = i
        /\ Len(calls) < 5 => /\ rpc \in {"loop", "waiting"}
                             /\ delays = (IF rpc = "waiting" THEN Len(calls) ELSE attempt - 1)
                             /\ rpc = "loop" => attempt = Len(calls) + 1
        /\ Len(calls) >= 5 => /\ Len(calls) = 5
                              /\ rpc = "returned"
                              /\ outcome.type = "value"
                              /\ delays = 4
                              /\ (IF pc = "watch" THEN "CI never registered. Continuing."
                                  ELSE "CI report never arrived. Continuing.") \in printed

\* the report poll returned after five attempts that all saw 'no checks reported'
C31_Witness ==
    /\ program = "polls" /\ pc = "report"
    /\ ChecksNeverReported
    /\ Len(calls) = 5
    /\ rpc = "returned"

\* the same for the watch poll
C31_WitnessWatch ==
    /\ program = "polls" /\ pc = "watch"
    /\ ChecksNeverReported
    /\ Len(calls) = 5
    /\ rpc = "returned"


\* the output has the row of a check that failed
ReportsFailedCheck(output) ==
    \E i \in DOMAIN output : \E j \in DOMAIN output[i] : output[i][j] \in {"fail", "failed"}

\* the attempts that classified the output of a `gh pr checks` that exited non-zero
ClassifiedAttempts ==
    {i \in DOMAIN calls : calls[i].probe # None /\ calls[i].probe[1].status # 0}

\* C32: an attempt whose `gh pr checks` exited non-zero with an output that
\* reports a failed check ends the poll with an error, whatever pending,
\* in progress or queued token the output also carries; the attempts that
\* are retried or degraded to success saw no failed check.
C32_FailedCheckNeverTreatedAsPending ==
    program = "polls" =>
        \A i \in ClassifiedAttempts :
            ReportsFailedCheck(calls[i].probe[1].output) => calls[i].status = "throw"


\* what evaluate_check_phase prints when a poll gives up waiting and goes on
DegradedMessages ==
    {"CI never registered. Continuing.", "CI still pending. Continuing.",
     "CI report never arrived. Continuing.", "CI report still pending. Continuing."}

\* how the last invocation of the command ended, "none" when it never ran
LastExit(cmd) ==
    LET ran == {i \in DOMAIN log : log[i].cmd = cmd}
    IN  IF ran = {} THEN "none"
        ELSE log[CHOOSE i \in ran : \A j \in ran : j <= i].exit

\* C33: 'Status: All checks passed' is printed only in runs where the last
\* `gh pr checks --watch` of the check watch and the last `gh pr checks` of
\* the check report exited with status 0, and never in a run where a poll
\* printed one of its '... Continuing.' messages.
C33_AllChecksPassedOnlyWhenReported ==
    (program = "automation" /\ "Status: All checks passed" \in printed) =>
        /\ LastExit("gh pr checks --watch") = "zero"
        /\ LastExit("gh pr checks") = "zero"
        /\ printed \cap DegradedMessages = {}


\* C34: the status wait of git_pr.create makes at most a fixed number of
\* `gh pr checks` polls: once MaxStatusPolls polls were made the wait is
\* over, whatever the polls answered.
C34_StatusWaitGivesUp ==
    (program = "workflow" /\ StatusPolls >= MaxStatusPolls) =>
        pc # "wait_for_status_available"


\* the i-th command is a `gh issue view` that printed a non-empty title
\* equal to the title parsed from the issue line
IssueTitleConfirmed(i) ==
    /\ log[i].cmd = "gh issue view"
    /\ TrimChars(log[i].output[1]) # <<>>
    /\ TrimChars(log[i].output[1]) = config.issue_title

\* C35: in git-automation every commit, push and PR creation comes after a
\* `gh issue view` that returned the parsed title, the operation selection
\* is asked only after it, and a `gh issue view` that found no issue or
\* another title is the last command of its run, which has ended with exit
\* code 1 and no operation selected.
C35_OperationsOnlyForMatchedIssue ==
    program = "automation" =>
        /\ \A i \in DOMAIN log :
              log[i].cmd \in {"git commit", "git push", "gh pr create"}
                  => \E j \in 1..(i - 1) : IssueTitleConfirmed(j)
        /\ pc = "select_operations" => \E j \in DOMAIN log : IssueTitleConfirmed(j)
        /\ \A j \in DOMAIN log :
              (log[j].cmd = "gh issue view" /\ ~IssueTitleConfirmed(j))
                  => /\ j = Len(log)
                     /\ pc = "exited"
                     /\ exit_code = 1
                     /\ operations = NoOperations
                     /\ "run_summary" \notin printed

\* a run created its pull request after the issue title was confirmed
C35_Witness ==
    /\ program = "automation"
    /\ \E i \in DOMAIN log : log[i].cmd = "gh pr create"
    /\ \E i \in DOMAIN log : log[i].cmd = "git commit"
    /\ \E j \in DOMAIN log : IssueTitleConfirmed(j)

\* a run was stopped by an issue title that differs
C35_WitnessStopped ==
    /\ program = "automation"
    /\ \E j \in DOMAIN log :
          /\ log[j].cmd = "gh issue view"
          /\ TrimChars(log[j].output[1]) \notin {<<>>, config.issue_title}
    /\ exit_code = 1


\* the run found main or master checked out: only then is `git pull` run
StartedOnMain ==
    \E i \in DOMAIN log : log[i].cmd = "git pull" /\ log[i].arg \in {MainBranch, MasterBranch}

\* `git push` was never given main or master
PushNeverToMain ==
    \A i \in DOMAIN log : log[i].cmd = "git push" => log[i].arg \notin {MainBranch, MasterBranch}

\* the canonical branch of the parsed issue is neither main nor master
CanonicalBranchIsNotMain ==
    config # NoConfig => config.target_branch \notin {MainBranch, MasterBranch}

\* a run that started on main or master and is about to commit or push has
\* the canonical branch checked out and recorded as its current branch
CanonicalBranchCreatedBeforeCommit ==
    (StartedOnMain /\ pc \in {"run_commit", "run_push"}) =>
        /\ \E i \in DOMAIN log :
              log[i].cmd = "git checkout -b" /\ log[i].arg = config.target_branch
        /\ current_branch = config.target_branch
        /\ head = config.target_branch

\* C36: run_push is never invoked with main or master: a run that started
\* on main or master has created the issue's canonical branch, has it
\* checked out and records it as the current branch before any commit or
\* push, and the canonical branch is never named main or master.
C36_NeverPushesMain ==
    program = "automation" =>
        /\ PushNeverToMain
        /\ CanonicalBranchIsNotMain
        /\ CanonicalBranchCreatedBeforeCommit


\* the question of the operation is put only when no other question waits
AskedAlone(i) ==
    LET before == SubSeq(log, 1, i - 1)
    IN  \A operation \in {"commit", "push", "pr"} \ {log[i].arg} :
            Cardinality({j \in DOMAIN before : before[j] = Asked(operation)})
                = Cardinality({j \in DOMAIN before :
                                  before[j].arg = operation /\ before[j].exit = "resolved"})

\* the first questions of the operations come in the order commit, push, pr
FirstAsked(operation) ==
    LET asked == {i \in DOMAIN log : log[i] = Asked(operation)}
    IN  IF asked = {} THEN Len(log) + 1 ELSE CHOOSE i \in asked : \A j \in asked : i <= j

\* C37: prompt_operations_once asks the commit, push and PR questions one
\* at a time in that order: at most one question waits for its answer at
\* any time, and a question is put to the interface only after the
\* questions of the other operations put before it were answered.
C37_QuestionsOneAtATime ==
    program = "operations" =>
        /\ Cardinality(OutstandingQuestions) <= 1
        /\ \A i \in DOMAIN log : log[i].exit = "asked" => AskedAlone(i)
        /\ FirstAsked("commit") <= FirstAsked("push")
        /\ FirstAsked("push") <= FirstAsked("pr")


\* the `gh pr create` invocations of the run
PrCreations == {i \in DOMAIN log : log[i].cmd = "gh pr create"}

\* git_pr.create's pre-check: the first `gh pr view <branch>` of the run
PreChecks ==
    {i \in DOMAIN log : log[i].cmd = "gh pr view" /\ \A j \in 1..(i - 1) : log[j].cmd # "gh pr view"}

\* `gh pr create` failed saying that the pull request already exists
ReportedAlreadyExists(i) ==
    /\ log[i].cmd = "gh pr create"
    /\ log[i].exit = "non_zero"
    /\ \E k \in DOMAIN log[i].output :
          IsInfix(<<"already", "exists">>, LowerLine(log[i].output[k]))

\* the run went on to the status wait
WentOnToStatusWait == pc = "wait_for_status_available" /\ error = "" /\ exit_code = -1

\* `gh pr create` runs at most once, right after a pre-check that found no PR
CreatedAtMostOnceWhenMissing ==
    /\ Cardinality(PrCreations) <= 1
    /\ \A i \in PrCreations :
          /\ i - 1 \in PreChecks
          /\ log[i - 1].exit # "zero"
          /\ log[i - 1].arg = config.target_branch

\* a pre-check that found the PR is followed by the status wait, not by a creation
FoundPrIsReused ==
    \A i \in PreChecks :
        log[i].exit = "zero" =>
            /\ PrCreations = {}
            /\ i = Len(log) => WentOnToStatusWait

\* C38: git_pr.create invokes `gh pr create` at most once per run and only
\* when `gh pr view <branch>` found no PR; when the PR exists already, found
\* by the pre-check or reported as 'already exists' by `gh pr create`, the
\* run goes on to the status wait instead of failing.
C38_CreateReusesExistingPr ==
    program = "workflow" =>
        /\ CreatedAtMostOnceWhenMissing
        /\ FoundPrIsReused
        /\ \A i \in PrCreations :
              (ReportedAlreadyExists(i) /\ i = Len(log)) => WentOnToStatusWait


\* the existence checks, the switches and the creations of the run
ExistenceChecks == {i \in DOMAIN log : log[i].cmd = "git branch --list"}
BranchChanges == {i \in DOMAIN log : log[i].cmd \in {"git checkout", "git checkout -b"}}

\* `git branch --list <target>` succeeded and printed the branch
ReportedExisting(i) ==
    /\ log[i].exit = "zero"
    /\ \E k \in DOMAIN log[i].output[1] : log[i].output[1][k] \notin {" ", "\n"}

\* C39: in the workflow script, on main the existence check is followed by
\* exactly one of switch_to(target) and create(target): switch_to when the
\* check reported the branch, create when it reported none or failed; on
\* every other current branch there is no check, no switch and no creation.
C39_SwitchOrCreateOnMainOnly ==
    program = "workflow" =>
        /\ Cardinality(ExistenceChecks) <= 1
        /\ Cardinality(BranchChanges) <= 1
        /\ \A i \in ExistenceChecks :
              /\ current_branch = MainBranch
              /\ log[i].arg = config.target_branch
              /\ BranchChanges = {i + 1}
              /\ log[i + 1].arg = config.target_branch
              /\ log[i + 1].cmd = (IF ReportedExisting(i) THEN "git checkout"
                                   ELSE "git checkout -b")
        /\ BranchChanges # {} => ExistenceChecks # {}
        /\ ("branch_aligned" \in done /\ current_branch = MainBranch) => ExistenceChecks # {}
        /\ current_branch # MainBranch => ExistenceChecks = {} /\ BranchChanges = {}

\* on main the existence check failed and the branch was created
C39_Witness ==
    /\ program = "workflow"
    /\ current_branch = MainBranch
    /\ \E i \in ExistenceChecks :
          /\ log[i].exit # "zero"
          /\ log[i + 1].cmd = "git checkout -b"
          /\ log[i + 1].exit = "zero"

\* on main the existence check reported the branch and the run switched to it
C39_WitnessSwitch ==
    /\ program = "workflow"
    /\ current_branch = MainBranch
    /\ \E i \in ExistenceChecks : ReportedExisting(i) /\ log[i + 1].cmd = "git checkout"

\* on another branch than main the step went by without a check
C39_WitnessOffMain ==
    /\ program = "workflow"
    /\ current_branch \notin {<<>>, MainBranch}
    /\ pc \notin {"current", "get_and_display", "check_and_create_branch"}
    /\ config # NoConfig

-----------------------------------------------------------------------------
(* The retry engine on its own, driven by an arbitrary execute             *)

V1 == << <<"v1">> >>
V2 == << <<"v2">> >>
M2 == << <<"m2">> >>
Blank == << <<>> >>
NoChecksMsg == << <<"no", "checks", "reported">> >>
Boom == << <<"boom">> >>

BenignRetry == StepRetry(Some(RetryDetails(NoChecksMsg, None)))

\* results an execute may give: two values, retries with and without
\* details (message only, blank message with raw output, both empty), a throw
ScriptedResults ==
    { StepSuccess(V1, None),
      StepSuccess(V2, None),
      StepRetry(None),
      BenignRetry,
      StepRetry(Some(RetryDetails(Blank, Some(M2)))),
      StepRetry(Some(RetryDetails(<<>>, Some(<<>>)))),
      StepThrow(Boom) }

ConfiguredAttempts == {None} \cup {Some(n) : n \in 0..MaxConfiguredAttempts}

InitRetry ==
    /\ rpc = "loop"
    /\ attempt = 1
    /\ max_attempts \in
         {IF c = None THEN DEFAULT_MAX_ATTEMPTS ELSE c[1] : c \in ConfiguredAttempts}
    /\ label = "Checks"
    /\ last_retry_details = None
    /\ calls = <<>>
    /\ delays = 0
    /\ outcome = [type |-> "none", text |-> <<>>]
    /\ script \in [1..max_attempts -> ScriptedResults]
    /\ WorkflowIdle

ScriptedAttempt ==
    /\ program = "none"
    /\ attempt \in DOMAIN script
    /\ process_retry_attempt(script[attempt])
    /\ UNCHANGED wf_vars

NextRetry ==
    \/ ScriptedAttempt
    \/ RetryDelayElapsed
    \/ RetryLoopExit

SpecRetry == InitRetry /\ [][NextRetry]_vars

RetryFinished == rpc \in {"returned", "threw"}

\* execute answers 'retry' on attempts 1..k-1 and 'success' on attempt k
FirstSuccessAt(k) ==
    /\ k \in DOMAIN script
    /\ script[k].status = "success"
    /\ \A i \in 1..(k - 1) : script[i].status = "retry"

\* C3: retry_with_status - if execute returns 'retry' on attempts 1..k-1 and
\* 'success' on attempt k (1 <= k <= max_attempts), the call returns attempt
\* k's value after exactly k invocations of execute and exactly k-1 delays;
\* no delay follows the successful attempt.
C3_RetryThenSuccess ==
    \A k \in 1..max_attempts :
        (FirstSuccessAt(k) /\ RetryFinished) =>
            /\ rpc = "returned"
            /\ outcome = [type |-> "value", text |-> script[k].value]
            /\ Len(calls) = k
            /\ delays = k - 1

C3_Witness ==
    /\ max_attempts = DEFAULT_MAX_ATTEMPTS
    /\ FirstSuccessAt(DEFAULT_MAX_ATTEMPTS)
    /\ rpc = "returned"
    /\ delays = DEFAULT_MAX_ATTEMPTS - 1

\* C4: in every run of retry_with_status execute is invoked with attempt
\* numbers 1, 2, 3, ... in increasing order without gaps, every attempt
\* number satisfies 1 <= attempt <= max_attempts, and execute is invoked at
\* most max_attempts times.
C4_AttemptsInRange ==
    /\ Len(calls) <= max_attempts
    /\ \A i \in DOMAIN calls :
          /\ calls[i].attempt = i
          /\ 1 <= calls[i].attempt
          /\ calls[i].attempt <= calls[i].max_attempts
          /\ calls[i].max_attempts = max_attempts

C4_Witness ==
    /\ max_attempts = DEFAULT_MAX_ATTEMPTS
    /\ Len(calls) = DEFAULT_MAX_ATTEMPTS
    /\ rpc = "threw"

\* execute answers 'retry' with the benign "no checks reported" message on
\* every attempt
AlwaysBenignRetry ==
    /\ max_attempts >= 1
    /\ \A i \in DOMAIN script : script[i] = BenignRetry

\* C5 as stated: with an execute that returns 'retry' with a benign "no
\* checks reported" message on every attempt, the loop completes without
\* error after max_attempts attempts.
C5_AsStated ==
    (AlwaysBenignRetry /\ RetryFinished) =>
        /\ rpc = "returned"
        /\ Len(calls) = max_attempts

\* C5 amended: with an execute that returns 'retry' with a benign "no checks
\* reported" message on every attempt, retry_with_status invokes execute
\* max_attempts times with max_attempts-1 delays and then fails with
\* "<label> failed." followed by that message; it never degrades a final
\* 'retry' to success.
C5_ExhaustedRetryFails ==
    (AlwaysBenignRetry /\ RetryFinished) =>
        /\ rpc = "threw"
        /\ Len(calls) = max_attempts
        /\ delays = max_attempts - 1
        /\ outcome = [type |-> "error", text |-> FailedLabel(label) \o NoChecksMsg]

C5_Witness ==
    /\ AlwaysBenignRetry
    /\ max_attempts = DEFAULT_MAX_ATTEMPTS
    /\ rpc = "threw"
    /\ Len(calls) = DEFAULT_MAX_ATTEMPTS

\* the non-empty message attempt i reported, if any: its details' message,
\* or the raw output when the message is blank
ReportedMessage(i) ==
    LET d == script[i].details
    IN  IF d = None THEN None
        ELSE IF Trim(d[1].message) # <<>> THEN Some(Trim(d[1].message))
        ELSE IF d[1].raw_output # None /\ Trim(d[1].raw_output[1]) # <<>>
             THEN Some(Trim(d[1].raw_output[1]))
        ELSE None

Reporting == {i \in DOMAIN calls : ReportedMessage(i) # None}

Latest(S) == CHOOSE i \in S : \A j \in S : j <= i

\* C7: when retry_with_status fails because the final allowed attempt
\* returned 'retry', the text of the raised error contains the most recent
\* non-empty message reported by any attempt of that loop.
C7_ErrorCarriesLastMessage ==
    ( /\ rpc = "threw"
      /\ calls # <<>>
      /\ calls[Len(calls)].status = "retry"
      /\ Reporting # {} )
    => IsInfix(ReportedMessage(Latest(Reporting))[1], outcome.text)

====
